---------------------------- MODULE Spec2Model ----------------------------
(***************************************************************************)
(* Coverage core of codecov-action: format parsers, the aggregator, the    *)
(* patch analyzer and the threshold checker.                               *)
(*                                                                         *)
(* Conventions of the model                                                *)
(*  - A rate (lineRate, branchRate, percentage, target, threshold, delta)  *)
(*    is an integer number of hundredths of a percent: 70.00% is 7000.     *)
(*    The code rounds rates to two decimals (toFixed(2)), so hundredths    *)
(*    are exact for them.  Within the bounds used no quotient lies         *)
(*    exactly on a rounding tie (a tie needs a denominator that is a       *)
(*    multiple of 32).                                                     *)
(*  - Numbers read from a report (Number.parseInt) are naturals; text that *)
(*    does not parse as a number is not modelled.                          *)
(*  - An optional field is a record [present, v].                          *)
(*  - FileCoverage keeps path, the six counters, the two rates, lines and  *)
(*    missingLines/partialLines; LineCoverage keeps lineNumber, count and  *)
(*    type.  The display name and the timestamp are left out.              *)
(***************************************************************************)
EXTENDS Integers, Sequences, FiniteSets, TLC

VARIABLES
    op,            \* the operation that ran last
    content,       \* the report handed to the last parseContent
    parsed,        \* CoverageResults returned by the last parseContent
    allResults,    \* processCoverage: the CoverageResults parsed so far
    aggregated,    \* AggregatedCoverageResults (optional)
    diffFiles,     \* parseDiff(diffContent): the diff entries
    patchCoverage, \* PatchCoverageResults | null (optional)
    projectConfig, \* config handed to checkProjectStatus
    patchConfig,   \* config handed to checkPatchStatus
    projectStatus, \* StatusCheckResult of checkProjectStatus (optional)
    patchStatus,   \* StatusCheckResult of checkPatchStatus (optional)
    arg,           \* the argument of the last call of a function checked alone
    ret,           \* what that call returned or threw
    coverageConfig,       \* run: the CoverageConfig of getCoverageConfig (optional)
    coverageChecksFailed, \* run: the flag of that name
    failed,        \* run: the message handed to core.setFailed (optional)
    remainingFiles, \* processCoverage: the valid files the loop has yet to visit
    effects        \* what has been published so far, in order

vars == <<op, content, parsed, allResults, aggregated, diffFiles, patchCoverage,
          projectConfig, patchConfig, projectStatus, patchStatus,
          arg, ret, coverageConfig, coverageChecksFailed, failed,
          remainingFiles, effects>>

\* The variables of run() and of the functions checked alone
restVars == <<arg, ret, coverageConfig, coverageChecksFailed, failed,
              remainingFiles, effects>>

-----------------------------------------------------------------------------
(* Bounds *)

MaxReports == 2     \* reports handed to aggregateResults
MaxWeight == 3      \* sum of the totals and files of those reports
MaxCounter == 2     \* a counter read from a report is in 0..MaxCounter
MaxLine == 2        \* line numbers are in 1..MaxLine
MaxHits == 1        \* hit counts are in 0..MaxHits
MaxEntries == 2     \* entries of a list read from a report
MaxSteps == 4       \* statements of the results handed to the status checks
MaxPatchLines == 5  \* added lines of the patch handed to the status checks
MaxPatchItems == 3  \* coverage line entries plus diff changes of a patch analysis

-----------------------------------------------------------------------------
(* Generic helpers *)

None == [present |-> FALSE, v |-> <<>>]
Some(x) == [present |-> TRUE, v |-> x]

RECURSIVE SeqSum(_)
SeqSum(s) == IF s = <<>> THEN 0 ELSE Head(s) + SeqSum(Tail(s))

RECURSIVE Flatten(_)
Flatten(ss) == IF ss = <<>> THEN <<>> ELSE Head(ss) \o Flatten(Tail(ss))

\* ((x) * 100).toFixed(2) of the quotient covered / total, in hundredths of a
\* percent: the nearest hundredth, the larger one on a tie.
ToFixed2(covered, total) == (2 * 10000 * covered + total) \div (2 * total)

\* BaseCoverageParser.calculateRate
calculateRate(covered, total) ==
    IF total = 0 THEN 0 ELSE ToFixed2(covered, total)

-----------------------------------------------------------------------------
(* Data *)

Paths == {"a.ts", "b.ts"}

FileCoverage(path, st, cst, co, cco, me, cme, lr, br, lines, missing, partial) ==
    [path |-> path,
     statements |-> st, coveredStatements |-> cst,
     conditionals |-> co, coveredConditionals |-> cco,
     methods |-> me, coveredMethods |-> cme,
     lineRate |-> lr, branchRate |-> br,
     lines |-> lines, missingLines |-> missing, partialLines |-> partial]

CoverageMetrics(st, cst, co, cco, me, cme, lr, br) ==
    [statements |-> st, coveredStatements |-> cst,
     conditionals |-> co, coveredConditionals |-> cco,
     methods |-> me, coveredMethods |-> cme,
     lineRate |-> lr, branchRate |-> br]

CoverageResults(metrics, files) == [metrics |-> metrics, files |-> files]

EmptyResults == CoverageResults(CoverageMetrics(0, 0, 0, 0, 0, 0, 0, 0), <<>>)

-----------------------------------------------------------------------------
(* Aggregator *)

\* CoverageParserFactory.aggregateResults: the loop over results, one
\* accumulator record for the six totals and allFiles.
RECURSIVE AggregateLoop(_, _)
AggregateLoop(results, acc) ==
    IF results = <<>> THEN acc
    ELSE LET result == Head(results) IN
         AggregateLoop(Tail(results),
            [totalStatements     |-> acc.totalStatements + result.metrics.statements,
             coveredStatements   |-> acc.coveredStatements + result.metrics.coveredStatements,
             totalConditionals   |-> acc.totalConditionals + result.metrics.conditionals,
             coveredConditionals |-> acc.coveredConditionals + result.metrics.coveredConditionals,
             totalMethods        |-> acc.totalMethods + result.metrics.methods,
             coveredMethods      |-> acc.coveredMethods + result.metrics.coveredMethods,
             allFiles            |-> acc.allFiles \o result.files])

\* Mutant: files of a path already listed are dropped
RECURSIVE DedupByPath(_)
DedupByPath(files) ==
    IF files = <<>> THEN <<>>
    ELSE LET rest == DedupByPath(SubSeq(files, 1, Len(files) - 1))
             last == files[Len(files)]
         IN  IF \E i \in 1..Len(rest) : rest[i].path = last.path
             THEN rest ELSE Append(rest, last)

aggregateResultsDedup(results) ==
    LET t == AggregateLoop(results,
                [totalStatements |-> 0, coveredStatements |-> 0,
                 totalConditionals |-> 0, coveredConditionals |-> 0,
                 totalMethods |-> 0, coveredMethods |-> 0, allFiles |-> <<>>])
    IN  [totalStatements |-> t.totalStatements,
         coveredStatements |-> t.coveredStatements,
         totalConditionals |-> t.totalConditionals,
         coveredConditionals |-> t.coveredConditionals,
         totalMethods |-> t.totalMethods,
         coveredMethods |-> t.coveredMethods,
         lineRate |-> IF t.totalStatements > 0
                      THEN ToFixed2(t.coveredStatements, t.totalStatements) ELSE 0,
         branchRate |-> IF t.totalConditionals > 0
                        THEN ToFixed2(t.coveredConditionals, t.totalConditionals) ELSE 0,
         files |-> DedupByPath(t.allFiles),
         comparison |-> None]

\* Mutant: the rates are the mean of the reports' rates
aggregateResultsMeanRate(results) ==
    LET t == AggregateLoop(results,
                [totalStatements |-> 0, coveredStatements |-> 0,
                 totalConditionals |-> 0, coveredConditionals |-> 0,
                 totalMethods |-> 0, coveredMethods |-> 0, allFiles |-> <<>>])
        n == Len(results)
    IN  [totalStatements |-> t.totalStatements,
         coveredStatements |-> t.coveredStatements,
         totalConditionals |-> t.totalConditionals,
         coveredConditionals |-> t.coveredConditionals,
         totalMethods |-> t.totalMethods,
         coveredMethods |-> t.coveredMethods,
         lineRate |-> IF n = 0 THEN 0
                      ELSE SeqSum([i \in 1..n |-> results[i].metrics.lineRate]) \div n,
         branchRate |-> IF n = 0 THEN 0
                        ELSE SeqSum([i \in 1..n |-> results[i].metrics.branchRate]) \div n,
         files |-> t.allFiles,
         comparison |-> None]

aggregateResults(results) ==
    LET t == AggregateLoop(results,
                [totalStatements |-> 0, coveredStatements |-> 0,
                 totalConditionals |-> 0, coveredConditionals |-> 0,
                 totalMethods |-> 0, coveredMethods |-> 0, allFiles |-> <<>>])
        lineRate == IF t.totalStatements > 0
                    THEN ToFixed2(t.coveredStatements, t.totalStatements)
                    ELSE 0
        branchRate == IF t.totalConditionals > 0
                      THEN ToFixed2(t.coveredConditionals, t.totalConditionals)
                      ELSE 0
    IN  [totalStatements |-> t.totalStatements,
         coveredStatements |-> t.coveredStatements,
         totalConditionals |-> t.totalConditionals,
         coveredConditionals |-> t.coveredConditionals,
         totalMethods |-> t.totalMethods,
         coveredMethods |-> t.coveredMethods,
         lineRate |-> lineRate,
         branchRate |-> branchRate,
         files |-> t.allFiles,
         comparison |-> None]

-----------------------------------------------------------------------------
(* LCOV parser *)

\* One directive line of a record: tag is the text before the colon; a and b
\* are its first two numeric fields (DA: line, hits; BRDA: line, taken; the
\* summary directives: the count in a).  dash is TRUE for a BRDA whose taken
\* field is "-".  An SF directive carries its path in path.
Directive(tag, a, b) == [tag |-> tag, a |-> a, b |-> b, dash |-> FALSE, path |-> ""]
SF(path) == [tag |-> "SF", a |-> 0, b |-> 0, dash |-> FALSE, path |-> path]
DA(line, hits) == Directive("DA", line, hits)
BRDA(line, taken) == Directive("BRDA", line, taken)
BRDADash(line) == [tag |-> "BRDA", a |-> line, b |-> 0, dash |-> TRUE, path |-> ""]

\* The ascending sequence of the elements of a finite set of integers
\* (Array.prototype.sort with a numeric comparator, over distinct keys).
RECURSIVE SortedSeq(_)
SortedSeq(S) ==
    IF S = {} THEN <<>>
    ELSE LET m == CHOOSE x \in S : \A y \in S : x <= y
         IN  <<m>> \o SortedSeq(S \ {m})

LcovInitState ==
    [sourceFile |-> "",
     lineData |-> <<>>,      \* Map<number, number>, as a function
     branchData |-> <<>>,    \* Map<number, {total, covered}>, as a function
     functionsFound |-> 0, functionsHit |-> 0,
     linesFound |-> 0, linesHit |-> 0,
     branchesFound |-> 0, branchesHit |-> 0]

\* Map.set(k, v) on a map held as a function
MapSet(m, k, v) == [x \in (DOMAIN m) \cup {k} |-> IF x = k THEN v ELSE m[x]]

\* LcovParser.parseRecord: the body of the loop over the record's lines
LcovStep(st, d) ==
    CASE d.tag = "SF"  -> [st EXCEPT !.sourceFile = d.path]
      [] d.tag = "DA"  -> [st EXCEPT !.lineData = MapSet(st.lineData, d.a, d.b)]
      [] d.tag = "LF"  -> [st EXCEPT !.linesFound = d.a]
      [] d.tag = "LH"  -> [st EXCEPT !.linesHit = d.a]
      [] d.tag = "FNF" -> [st EXCEPT !.functionsFound = d.a]
      [] d.tag = "FNH" -> [st EXCEPT !.functionsHit = d.a]
      [] d.tag = "BRF" -> [st EXCEPT !.branchesFound = d.a]
      [] d.tag = "BRH" -> [st EXCEPT !.branchesHit = d.a]
      [] d.tag = "BRDA" ->
            LET taken == IF d.dash THEN 0 ELSE d.b
                existing == IF d.a \in DOMAIN st.branchData
                            THEN st.branchData[d.a]
                            ELSE [total |-> 0, covered |-> 0]
                updated == [total |-> existing.total + 1,
                            covered |-> existing.covered + (IF taken > 0 THEN 1 ELSE 0)]
            IN  [st EXCEPT !.branchData = MapSet(st.branchData, d.a, updated)]
      [] OTHER -> st

RECURSIVE LcovLoop(_, _)
LcovLoop(record, st) ==
    IF record = <<>> THEN st ELSE LcovLoop(Tail(record), LcovStep(st, Head(record)))

\* LcovParser.parseRecord: FileCoverage | null
parseRecord(record) ==
    LET st == LcovLoop(record, LcovInitState)
        lineNums == DOMAIN st.lineData
        branchLines == DOMAIN st.branchData
        fromLines == st.linesFound = 0 /\ lineNums # {}
        linesFound == IF fromLines THEN Cardinality(lineNums) ELSE st.linesFound
        linesHit == IF fromLines
                    THEN Cardinality({n \in lineNums : st.lineData[n] > 0})
                    ELSE st.linesHit
        fromBranches == st.branchesFound = 0 /\ branchLines # {}
        branchTotals == [i \in 1..Cardinality(branchLines) |->
                            st.branchData[SortedSeq(branchLines)[i]].total]
        branchCovered == [i \in 1..Cardinality(branchLines) |->
                            st.branchData[SortedSeq(branchLines)[i]].covered]
        branchesFound == IF fromBranches
                         THEN st.branchesFound + SeqSum(branchTotals)
                         ELSE st.branchesFound
        branchesHit == IF fromBranches
                       THEN st.branchesHit + SeqSum(branchCovered)
                       ELSE st.branchesHit
        sorted == SortedSeq(lineNums)
        lineCoverage == [i \in 1..Len(sorted) |->
                            [lineNumber |-> sorted[i],
                             count |-> st.lineData[sorted[i]],
                             type |-> IF sorted[i] \in branchLines THEN "cond" ELSE "stmt"]]
    IN  IF st.sourceFile = "" THEN None
        ELSE Some(FileCoverage(st.sourceFile, linesFound, linesHit,
                               branchesFound, branchesHit,
                               st.functionsFound, st.functionsHit,
                               calculateRate(linesHit, linesFound),
                               calculateRate(branchesHit, branchesFound),
                               lineCoverage, None, None))

\* The per-report metrics every parser but Clover and JaCoCo derives by
\* summing its files (the loop over files and the metrics literal).
RECURSIVE SumField(_, _)
SumField(files, f) ==
    IF files = <<>> THEN 0 ELSE Head(files)[f] + SumField(Tail(files), f)

SummedMetrics(files, lineRate, branchRate) ==
    CoverageMetrics(SumField(files, "statements"), SumField(files, "coveredStatements"),
                    SumField(files, "conditionals"), SumField(files, "coveredConditionals"),
                    SumField(files, "methods"), SumField(files, "coveredMethods"),
                    lineRate, branchRate)

RECURSIVE LcovFiles(_)
LcovFiles(records) ==
    IF records = <<>> THEN <<>>
    ELSE LET rec == Head(records)
             fileResult == parseRecord(rec)
         IN  (IF rec # <<>> /\ fileResult.present THEN <<fileResult.v>> ELSE <<>>)
             \o LcovFiles(Tail(records))

\* LcovParser.parseContent, over the records between end_of_record markers
LcovParseContent(records) ==
    LET files == LcovFiles(records)
    IN  CoverageResults(
            SummedMetrics(files,
                calculateRate(SumField(files, "coveredStatements"), SumField(files, "statements")),
                calculateRate(SumField(files, "coveredConditionals"), SumField(files, "conditionals"))),
            files)

-----------------------------------------------------------------------------
(* Istanbul parser *)

\* Number of keys of a hit map whose value is > 0
\* (Object.values(m).filter((h) => h > 0).length)
CountPositive(m) == Cardinality({k \in DOMAIN m : m[k] > 0})

\* m[k] || 0
GetOrZero(m, k) == IF k \in DOMAIN m THEN m[k] ELSE 0

\* Number of entries > 0 of a sequence (hits.filter((h) => h > 0).length)
PositiveEntries(hits) == Cardinality({i \in 1..Len(hits) : hits[i] > 0})

RECURSIVE IstanbulLineMap(_, _, _, _)
\* The loop "Add statement lines": ids in key order, lineMap as a function
IstanbulLineMap(ids, statementMap, statementHits, lineMap) ==
    IF ids = <<>> THEN lineMap
    ELSE LET line == statementMap[Head(ids)]
             hitCount == GetOrZero(statementHits, Head(ids))
             next == IF line \notin DOMAIN lineMap
                     THEN MapSet(lineMap, line, hitCount)
                     ELSE MapSet(lineMap, line,
                                 IF lineMap[line] >= hitCount THEN lineMap[line] ELSE hitCount)
         IN  IstanbulLineMap(Tail(ids), statementMap, statementHits, next)

\* IstanbulParser.parseFileCoverage.  fileCoverage:
\*   path; statementMap: id -> start line; s: id -> hits; fnMap: set of ids;
\*   f: id -> hits; branchMap: id -> [line, locations (their number)];
\*   b: id -> sequence of hits
IstanbulParseFileCoverage(fileCoverage) ==
    LET statementMap == fileCoverage.statementMap
        statementHits == fileCoverage.s
        totalStatements == Cardinality(DOMAIN statementMap)
        coveredStatements == CountPositive(statementHits)
        totalMethods == Cardinality(fileCoverage.fnMap)
        coveredMethods == CountPositive(fileCoverage.f)
        branchMap == fileCoverage.branchMap
        branchIds == SortedSeq(DOMAIN branchMap)
        totalBranches ==
            SeqSum([i \in 1..Len(branchIds) |-> branchMap[branchIds[i]].locations])
        coveredBranches ==
            SeqSum([i \in 1..Len(branchIds) |->
                      IF branchIds[i] \in DOMAIN fileCoverage.b
                      THEN PositiveEntries(fileCoverage.b[branchIds[i]])
                      ELSE 0])
        lineMap == IstanbulLineMap(SortedSeq(DOMAIN statementMap),
                                   statementMap, statementHits, <<>>)
        branchLines == {branchMap[id].line : id \in DOMAIN branchMap}
        sorted == SortedSeq(DOMAIN lineMap)
        lines == [i \in 1..Len(sorted) |->
                    [lineNumber |-> sorted[i],
                     count |-> lineMap[sorted[i]],
                     type |-> IF sorted[i] \in branchLines THEN "cond" ELSE "stmt"]]
    IN  FileCoverage(fileCoverage.path, totalStatements, coveredStatements,
                     totalBranches, coveredBranches, totalMethods, coveredMethods,
                     calculateRate(coveredStatements, totalStatements),
                     calculateRate(coveredBranches, totalBranches),
                     lines, None, None)

\* IstanbulParser.parseContent, over the file objects of the JSON document
IstanbulParseContent(data) ==
    LET files == [i \in 1..Len(data) |-> IstanbulParseFileCoverage(data[i])]
    IN  CoverageResults(
            SummedMetrics(files,
                calculateRate(SumField(files, "coveredStatements"), SumField(files, "statements")),
                calculateRate(SumField(files, "coveredConditionals"), SumField(files, "conditionals"))),
            files)

-----------------------------------------------------------------------------
(* Clover parser *)

\* CloverParser.parseMetrics, over the numeric attributes of <metrics>
\* (an absent attribute reads as 0)
CloverParseMetrics(metricsAttrs) ==
    CoverageMetrics(metricsAttrs.statements, metricsAttrs.coveredstatements,
                    metricsAttrs.conditionals, metricsAttrs.coveredconditionals,
                    metricsAttrs.methods, metricsAttrs.coveredmethods,
                    calculateRate(metricsAttrs.coveredstatements, metricsAttrs.statements),
                    calculateRate(metricsAttrs.coveredconditionals, metricsAttrs.conditionals))

\* CloverParser.parseFileElement: [path, metrics, line: seq of [num, count, type]]
CloverParseFileElement(fileElement) ==
    LET metrics == CloverParseMetrics(fileElement.metrics)
        lines == [i \in 1..Len(fileElement.line) |->
                    [lineNumber |-> fileElement.line[i].num,
                     count |-> fileElement.line[i].count,
                     type |-> fileElement.line[i].type]]
    IN  FileCoverage(fileElement.path, metrics.statements, metrics.coveredStatements,
                     metrics.conditionals, metrics.coveredConditionals,
                     metrics.methods, metrics.coveredMethods,
                     metrics.lineRate, metrics.branchRate, lines, None, None)

\* CloverParser.parseContent, over a <project>: [metrics, file: sequence]
CloverParseContent(project) ==
    CoverageResults(CloverParseMetrics(project.metrics),
                    [i \in 1..Len(project.file) |-> CloverParseFileElement(project.file[i])])

-----------------------------------------------------------------------------
(* Cobertura parser *)

\* One <line> of a class.  cc describes its condition-coverage attribute:
\* "absent", "match" (it contains "(covered/total)") or "nomatch".
CoberturaLine(number, hits, branch, cc, covered, total) ==
    [number |-> number, hits |-> hits, branch |-> branch,
     cc |-> cc, covered |-> covered, total |-> total]

\* Mutant: a branch line without condition-coverage adds no branch
RECURSIVE CoberturaLineLoopNoDefault(_, _)
CoberturaLineLoopNoDefault(classLines, acc) ==
    IF classLines = <<>> THEN acc
    ELSE LET line == Head(classLines)
             matched == line.branch /\ line.cc = "match"
         IN  CoberturaLineLoopNoDefault(Tail(classLines),
                [statements |-> acc.statements + 1,
                 coveredStatements |-> acc.coveredStatements + (IF line.hits > 0 THEN 1 ELSE 0),
                 conditionals |-> acc.conditionals + (IF matched THEN line.total ELSE 0),
                 coveredConditionals |->
                     acc.coveredConditionals + (IF matched THEN line.covered ELSE 0),
                 lines |-> Append(acc.lines,
                                  [lineNumber |-> line.number, count |-> line.hits,
                                   type |-> IF line.branch THEN "cond" ELSE "stmt"])])

\* CoberturaParser.parseClass: the loop over the class's lines
RECURSIVE CoberturaLineLoop(_, _)
CoberturaLineLoop(classLines, acc) ==
    IF classLines = <<>> THEN acc
    ELSE LET line == Head(classLines)
             isBranch == line.branch
             addTotal == IF ~isBranch THEN 0
                         ELSE IF line.cc = "absent" THEN 2
                         ELSE IF line.cc = "match" THEN line.total
                         ELSE 0
             addCovered == IF ~isBranch THEN 0
                           ELSE IF line.cc = "absent"
                                THEN (IF line.hits > 0 THEN 1 ELSE 0)
                           ELSE IF line.cc = "match" THEN line.covered
                           ELSE 0
         IN  CoberturaLineLoop(Tail(classLines),
                [statements |-> acc.statements + 1,
                 coveredStatements |-> acc.coveredStatements + (IF line.hits > 0 THEN 1 ELSE 0),
                 conditionals |-> acc.conditionals + addTotal,
                 coveredConditionals |-> acc.coveredConditionals + addCovered,
                 lines |-> Append(acc.lines,
                                  [lineNumber |-> line.number, count |-> line.hits,
                                   type |-> IF isBranch THEN "cond" ELSE "stmt"])])

\* CoberturaParser.parseClass: [filename, lines, methods: sequence of the hit
\* sequences of each <method>'s lines]
CoberturaParseClass(classElement) ==
    LET acc == CoberturaLineLoop(classElement.lines,
                   [statements |-> 0, coveredStatements |-> 0, conditionals |-> 0,
                    coveredConditionals |-> 0, lines |-> <<>>])
        methods == classElement.methods
        hasHits(m) == \E i \in 1..Len(m) : m[i] > 0
        counted == Cardinality({i \in 1..Len(methods) : hasHits(methods[i])})
        methodCount == IF Len(methods) = 0 THEN 1 ELSE Len(methods)
        coveredMethodCount == IF Len(methods) = 0
                              THEN (IF acc.coveredStatements > 0 THEN 1 ELSE 0)
                              ELSE counted
    IN  FileCoverage(classElement.filename, acc.statements, acc.coveredStatements,
                     acc.conditionals, acc.coveredConditionals,
                     methodCount, coveredMethodCount,
                     calculateRate(acc.coveredStatements, acc.statements),
                     calculateRate(acc.coveredConditionals, acc.conditionals),
                     acc.lines, None, None)

\* CoberturaParser.parseContent, over <coverage>: [lineRate, branchRate,
\* packages: sequence of sequences of classes].  lineRate and branchRate are
\* the line-rate and branch-rate attributes in hundredths (0.5 is 50; an
\* absent attribute reads as 0), so the attribute times 100 is a rate of
\* 100 times as many hundredths of a percent.
CoberturaParseContent(coverage) ==
    LET classes == Flatten(coverage.packages)
        files == [i \in 1..Len(classes) |-> CoberturaParseClass(classes[i])]
        totalStatements == SumField(files, "statements")
        coveredStatements == SumField(files, "coveredStatements")
        totalConditionals == SumField(files, "conditionals")
        coveredConditionals == SumField(files, "coveredConditionals")
    IN  CoverageResults(
            SummedMetrics(files,
                IF totalStatements > 0
                THEN calculateRate(coveredStatements, totalStatements)
                ELSE coverage.lineRate * 100,
                IF totalConditionals > 0
                THEN calculateRate(coveredConditionals, totalConditionals)
                ELSE coverage.branchRate * 100),
            files)

-----------------------------------------------------------------------------
(* JaCoCo parser *)

CounterTypes == {"instruction", "line", "branch", "method", "class", "complexity"}

\* JaCoCoParser.parseCounters: counters is a sequence of
\* [type (lower-cased), missed, covered]; a later counter of a type replaces
\* an earlier one, a type outside CounterTypes is ignored.
RECURSIVE JacocoParseCounters(_, _)
JacocoParseCounters(counters, result) ==
    IF counters = <<>> THEN result
    ELSE LET c == Head(counters)
         IN  JacocoParseCounters(Tail(counters),
                IF c.type \in CounterTypes
                THEN [result EXCEPT ![c.type] =
                        [missed |-> c.missed, covered |-> c.covered,
                         total |-> c.missed + c.covered]]
                ELSE result)

JacocoNoCounters ==
    [t \in CounterTypes |-> [missed |-> 0, covered |-> 0, total |-> 0]]

\* lines.sort((a, b) => a.lineNumber - b.lineNumber): a stable sort
RECURSIVE InsertByLineNumber(_, _)
InsertByLineNumber(sorted, l) ==
    IF sorted = <<>> THEN <<l>>
    ELSE IF Head(sorted).lineNumber <= l.lineNumber
         THEN <<Head(sorted)>> \o InsertByLineNumber(Tail(sorted), l)
         ELSE <<l>> \o sorted

RECURSIVE SortByLineNumber(_)
SortByLineNumber(lines) ==
    IF lines = <<>> THEN <<>>
    ELSE InsertByLineNumber(SortByLineNumber(SubSeq(lines, 1, Len(lines) - 1)),
                            lines[Len(lines)])

\* JaCoCoParser.parseSourceFile: [path, line: seq of [nr, ci, mb, cb], counter].
\* path is the package path joined with the file name.
JacocoParseSourceFile(sourceFile) ==
    LET raw == [i \in 1..Len(sourceFile.line) |->
                  [lineNumber |-> sourceFile.line[i].nr,
                   count |-> IF sourceFile.line[i].ci > 0 THEN sourceFile.line[i].ci ELSE 0,
                   type |-> IF sourceFile.line[i].mb > 0 \/ sourceFile.line[i].cb > 0
                            THEN "cond" ELSE "stmt"]]
        counters == JacocoParseCounters(sourceFile.counter, JacocoNoCounters)
    IN  FileCoverage(sourceFile.path, counters["line"].total, counters["line"].covered,
                     counters["branch"].total, counters["branch"].covered,
                     counters["method"].total, counters["method"].covered,
                     calculateRate(counters["line"].covered, counters["line"].total),
                     calculateRate(counters["branch"].covered, counters["branch"].total),
                     SortByLineNumber(raw), None, None)

\* JaCoCoParser.parseContent, over <report>: [sourcefiles (of all packages,
\* in order), counter]
JacocoParseContent(report) ==
    LET files == [i \in 1..Len(report.sourcefiles) |->
                    JacocoParseSourceFile(report.sourcefiles[i])]
        reportCounters == JacocoParseCounters(report.counter, JacocoNoCounters)
    IN  CoverageResults(
            CoverageMetrics(reportCounters["line"].total, reportCounters["line"].covered,
                            reportCounters["branch"].total, reportCounters["branch"].covered,
                            reportCounters["method"].total, reportCounters["method"].covered,
                            calculateRate(reportCounters["line"].covered,
                                          reportCounters["line"].total),
                            calculateRate(reportCounters["branch"].covered,
                                          reportCounters["branch"].total)),
            files)

-----------------------------------------------------------------------------
(* Codecov JSON parser *)

\* The value of one line key: null, a number (hit count) or a string; a string
\* of the form "covered/total" has kind "branch", any other string "other".
CodecovNull == [kind |-> "null", n |-> 0, covered |-> 0, total |-> 0]
CodecovHits(n) == [kind |-> "number", n |-> n, covered |-> 0, total |-> 0]
CodecovBranch(c, t) == [kind |-> "branch", n |-> 0, covered |-> c, total |-> t]
CodecovOther == [kind |-> "other", n |-> 0, covered |-> 0, total |-> 0]

\* CodecovParser.parseFileCoverage: the loop over the entries of the file
\* object, keys being line numbers in ascending order
RECURSIVE CodecovLineLoop(_, _, _)
CodecovLineLoop(keys, lineCoverage, acc) ==
    IF keys = <<>> THEN acc
    ELSE LET lineNumber == Head(keys)
             value == lineCoverage[lineNumber]
             next ==
               CASE value.kind = "number" ->
                      [acc EXCEPT
                         !.totalStatements = @ + 1,
                         !.lines = Append(@, [lineNumber |-> lineNumber,
                                              count |-> value.n, type |-> "stmt"]),
                         !.coveredStatements = IF value.n > 0 THEN @ + 1 ELSE @,
                         !.missingLines = IF value.n > 0 THEN @ ELSE Append(@, lineNumber)]
                 [] value.kind = "branch" ->
                      [acc EXCEPT
                         !.totalBranches = @ + value.total,
                         !.coveredBranches = @ + value.covered,
                         !.totalStatements = @ + 1,
                         !.lines = Append(@, [lineNumber |-> lineNumber,
                                              count |-> IF value.covered > 0
                                                        THEN value.covered ELSE 0,
                                              type |-> "cond"]),
                         !.coveredStatements = IF value.covered > 0 THEN @ + 1 ELSE @,
                         !.partialLines = IF value.covered > 0 /\ value.covered < value.total
                                          THEN Append(@, lineNumber) ELSE @,
                         !.missingLines = IF value.covered > 0 THEN @
                                          ELSE Append(@, lineNumber)]
                 [] OTHER -> acc
         IN  CodecovLineLoop(Tail(keys), lineCoverage, next)

\* Mutant: no line is reported as partially covered
CodecovParseFileCoverageNoPartial(filePath, lineCoverage) ==
    LET acc == CodecovLineLoop(SortedSeq(DOMAIN lineCoverage), lineCoverage,
                   [totalStatements |-> 0, coveredStatements |-> 0,
                    totalBranches |-> 0, coveredBranches |-> 0,
                    lines |-> <<>>, missingLines |-> <<>>, partialLines |-> <<>>])
    IN  FileCoverage(filePath, acc.totalStatements, acc.coveredStatements,
                     acc.totalBranches, acc.coveredBranches, 0, 0,
                     calculateRate(acc.coveredStatements, acc.totalStatements),
                     calculateRate(acc.coveredBranches, acc.totalBranches),
                     acc.lines, Some(acc.missingLines), Some(<<>>))

\* CodecovParser.parseFileCoverage: lineCoverage is a function from line
\* numbers to values.  The three arrays are built in ascending key order, so
\* the final sorts leave them as they are.
CodecovParseFileCoverage(filePath, lineCoverage) ==
    LET acc == CodecovLineLoop(SortedSeq(DOMAIN lineCoverage), lineCoverage,
                   [totalStatements |-> 0, coveredStatements |-> 0,
                    totalBranches |-> 0, coveredBranches |-> 0,
                    lines |-> <<>>, missingLines |-> <<>>, partialLines |-> <<>>])
    IN  FileCoverage(filePath, acc.totalStatements, acc.coveredStatements,
                     acc.totalBranches, acc.coveredBranches, 0, 0,
                     calculateRate(acc.coveredStatements, acc.totalStatements),
                     calculateRate(acc.coveredBranches, acc.totalBranches),
                     acc.lines, Some(acc.missingLines), Some(acc.partialLines))

\* CodecovParser.parseContent, over data.coverage: sequence of [path, lines]
CodecovParseContent(coverage) ==
    LET files == [i \in 1..Len(coverage) |->
                    CodecovParseFileCoverage(coverage[i].path, coverage[i].lines)]
    IN  CoverageResults(
            SummedMetrics(files,
                calculateRate(SumField(files, "coveredStatements"), SumField(files, "statements")),
                calculateRate(SumField(files, "coveredConditionals"), SumField(files, "conditionals"))),
            files)

-----------------------------------------------------------------------------
(* Patch analyzer *)

\* A percentage that is not rounded is the exact quotient n / d, in hundredths
\* of a percent (d > 0).
Ratio(n, d) == [n |-> n, d |-> d]
Hundred == Ratio(10000, 1)
\* (covered / total) * 100
PercentOf(covered, total) == Ratio(10000 * covered, total)
\* p >= t, p.toFixed(2)
RatioGE(p, t) == p.n >= t * p.d
RatioToFixed2(p) == (2 * p.n + p.d) \div (2 * p.d)

\* One entry of parseDiff's result: to is the destination path ("" when
\* there is none), chunks a sequence of chunks, a chunk a sequence of changes
DiffFile(to, deleted, chunks) == [to |-> to, deleted |-> deleted, chunks |-> chunks]
Change(type, ln) == [type |-> type, ln |-> ln]

\* Mutant: the first file with the path is the one found
CoverageMapGetFirst(files, path) ==
    LET hits == {i \in 1..Len(files) : files[i].path = path}
    IN  IF hits = {} THEN 0 ELSE CHOOSE i \in hits : \A j \in hits : i <= j

\* new Map(files.map((file) => [file.path, file])).get(path): the index of the
\* last file with that path, 0 when there is none
CoverageMapGet(files, path) ==
    LET hits == {i \in 1..Len(files) : files[i].path = path}
    IN  IF hits = {} THEN 0 ELSE CHOOSE i \in hits : \A j \in hits : j <= i

\* coverageFile.lines.find((l) => l.lineNumber === lineNumber): the index of
\* the first such entry, 0 when there is none
FindLine(lines, lineNumber) ==
    LET hits == {i \in 1..Len(lines) : lines[i].lineNumber = lineNumber}
    IN  IF hits = {} THEN 0 ELSE CHOOSE i \in hits : \A j \in hits : i <= j

\* Mutant: an added line without a coverage entry counts as missed
RECURSIVE ChangeLoopCountingUntracked(_, _, _)
ChangeLoopCountingUntracked(changes, coverageFile, acc) ==
    IF changes = <<>> THEN acc
    ELSE LET change == Head(changes)
             k == FindLine(coverageFile.lines, change.ln)
             next == IF change.type = "add"
                     THEN IF k # 0 /\ coverageFile.lines[k].count > 0
                          THEN [acc EXCEPT !.coveredLines = Append(@, change.ln)]
                          ELSE [acc EXCEPT !.missedLines = Append(@, change.ln)]
                     ELSE acc
         IN  ChangeLoopCountingUntracked(Tail(changes), coverageFile, next)

\* The loops over the chunks and changes of one diff entry
RECURSIVE ChangeLoop(_, _, _)
ChangeLoop(changes, coverageFile, acc) ==
    IF changes = <<>> THEN acc
    ELSE LET change == Head(changes)
             k == FindLine(coverageFile.lines, change.ln)
             next == IF change.type = "add" /\ k # 0
                     THEN IF coverageFile.lines[k].count > 0
                          THEN [acc EXCEPT !.coveredLines = Append(@, change.ln)]
                          ELSE [acc EXCEPT !.missedLines = Append(@, change.ln)]
                     ELSE acc
         IN  ChangeLoop(Tail(changes), coverageFile, next)

\* Mutant: every entry of the diff lists its path again
SetAddAgain(seq, x) == Append(seq, x)

\* changedFiles.add(path) on a Set kept in insertion order
SetAdd(seq, x) == IF \E i \in 1..Len(seq) : seq[i] = x THEN seq ELSE Append(seq, x)

\* The body of the loop over diffFiles
PatchStep(acc, diffFile) ==
    IF diffFile.deleted \/ diffFile.to = "" THEN acc
    ELSE LET changed == SetAdd(acc.changedFiles, diffFile.to)
             f == CoverageMapGet(acc.files, diffFile.to)
         IN  IF f = 0 THEN [acc EXCEPT !.changedFiles = changed]
             ELSE LET coverageFile == acc.files[f]
                      lines == ChangeLoop(Flatten(diffFile.chunks), coverageFile,
                                          [coveredLines |-> <<>>, missedLines |-> <<>>])
                      nc == Len(lines.coveredLines)
                      nm == Len(lines.missedLines)
                  IN  IF nc > 0 \/ nm > 0
                      THEN [changedFiles |-> changed,
                            totalCovered |-> acc.totalCovered + nc,
                            totalMissed |-> acc.totalMissed + nm,
                            fileBreakdown |-> Append(acc.fileBreakdown,
                                [path |-> diffFile.to,
                                 coveredLines |-> lines.coveredLines,
                                 missedLines |-> lines.missedLines,
                                 percentage |-> IF nc + nm = 0 THEN Hundred
                                                ELSE PercentOf(nc, nc + nm)]),
                            files |-> [acc.files EXCEPT ![f].missingLines =
                                         Some(IF @.present THEN @.v ELSE <<>>)]]
                      ELSE [acc EXCEPT !.changedFiles = changed]

RECURSIVE PatchLoop(_, _)
PatchLoop(diff, acc) ==
    IF diff = <<>> THEN acc ELSE PatchLoop(Tail(diff), PatchStep(acc, Head(diff)))

\* Mutant: nothing trackable reads as nothing covered
percentageZeroWhenEmpty(totalCovered, totalLines) ==
    IF totalLines = 0 THEN Ratio(0, 1) ELSE PercentOf(totalCovered, totalLines)

\* percentage = totalLines === 0 ? 100 : (totalCovered / totalLines) * 100
percentage(totalCovered, totalLines) ==
    IF totalLines = 0 THEN Hundred ELSE PercentOf(totalCovered, totalLines)

\* PatchAnalyzer.analyzePatchCoverage: the returned PatchCoverageResults in
\* result, the files of the coverageResults argument after the call in files
analyzePatchCoverage(diff, coverageResults) ==
    LET acc == PatchLoop(diff, [changedFiles |-> <<>>, totalCovered |-> 0,
                                totalMissed |-> 0, fileBreakdown |-> <<>>,
                                files |-> coverageResults.files])
        totalLines == acc.totalCovered + acc.totalMissed
    IN  [result |-> [coveredLines |-> acc.totalCovered,
                     missedLines |-> acc.totalMissed,
                     totalLines |-> totalLines,
                     percentage |-> percentage(acc.totalCovered, totalLines),
                     fileBreakdown |-> acc.fileBreakdown,
                     changedFiles |-> acc.changedFiles],
         files |-> acc.files]

-----------------------------------------------------------------------------
(* Threshold checker *)

\* A target is a number, the string "auto", or (from a configuration file
\* that the types do not constrain) some other value
NumberTarget(n) == [kind |-> "number", value |-> n]
AutoTarget == [kind |-> "auto", value |-> 0]
OtherTarget == [kind |-> "other", value |-> 0]

\* A threshold is a number or null
NumberThreshold(n) == [kind |-> "number", value |-> n]
NullThreshold == [kind |-> "null", value |-> 0]

StatusConfig(target, threshold, informational) ==
    [target |-> target, threshold |-> threshold, informational |-> informational]

\* A description is kept as its template (text) and the numbers printed in it
Description(text, cur, delta, target, threshold) ==
    [text |-> text, cur |-> cur, delta |-> delta, target |-> target, threshold |-> threshold]

StatusCheckResult(status, description, informational) ==
    [status |-> status, description |-> description, informational |-> informational]

\* Mutant: the target must be exceeded
isSuccessAboveTarget(currentCoverage, target) == currentCoverage > target

\* checkProjectStatus, numeric target: isSuccess = currentCoverage >= target
isSuccessTarget(currentCoverage, target) == currentCoverage >= target

\* Mutant: the threshold is not read
allowedDropZero(threshold) == 0

\* checkProjectStatus, "auto" target: allowedDrop = threshold || 0
allowedDrop(threshold) ==
    IF threshold.kind = "null" \/ threshold.value = 0 THEN 0 ELSE threshold.value

\* Mutant: an informational check always succeeds
checkProjectStatusLenient(results, config) ==
    IF config.informational
    THEN StatusCheckResult("success",
            Description("informational", results.lineRate, 0, 0, 0), TRUE)
    ELSE IF config.target.kind = "number" /\ results.lineRate < config.target.value
    THEN StatusCheckResult("failure",
            Description("< target", results.lineRate, 0, config.target.value, 0), FALSE)
    ELSE StatusCheckResult("success",
            Description(">= target", results.lineRate, 0, config.target.value, 0), FALSE)

\* ThresholdChecker.checkProjectStatus
checkProjectStatus(results, config) ==
    LET target == config.target
        threshold == config.threshold
        informational == config.informational
        currentCoverage == results.lineRate
    IN  IF target.kind = "number"
        THEN LET isSuccess == isSuccessTarget(currentCoverage, target.value)
             IN  StatusCheckResult(
                    IF isSuccess THEN "success" ELSE "failure",
                    Description(IF isSuccess THEN ">= target" ELSE "< target",
                                currentCoverage, 0, target.value, 0),
                    informational)
        ELSE IF target.kind = "auto"
        THEN IF ~results.comparison.present
             THEN StatusCheckResult("success",
                     Description("(No base report)", currentCoverage, 0, 0, 0),
                     informational)
             ELSE LET delta == results.comparison.v.deltaLineRate
                      drop == allowedDrop(threshold)
                      isSuccess == delta >= -drop
                      description ==
                         IF delta >= 0
                         THEN Description("(+delta) relative to base",
                                          currentCoverage, delta, 0, 0)
                         ELSE IF drop > 0
                              THEN Description("(delta) relative to base (threshold)",
                                               currentCoverage, delta, 0, drop)
                              ELSE Description("(delta) relative to base",
                                               currentCoverage, delta, 0, 0)
                  IN  StatusCheckResult(IF isSuccess THEN "success" ELSE "failure",
                                        description, informational)
        ELSE StatusCheckResult("success",
                Description("Unknown target configuration", 0, 0, 0, 0),
                informational)

\* The target checkPatchStatus falls back to
DefaultPatchTarget == 80 * 100

\* Mutant: "auto" leaves the patch check without a target
patchTargetNone(target) == IF target.kind = "number" THEN target.value ELSE 0

\* checkPatchStatus: target = typeof config.target === "number" ? config.target : 80
patchTarget(target) ==
    IF target.kind = "number" THEN target.value ELSE DefaultPatchTarget

\* ThresholdChecker.checkPatchStatus; patchCoverage is optional (null)
checkPatchStatus(patch, config) ==
    LET informational == config.informational
    IN  IF ~patch.present
        THEN StatusCheckResult("success",
                Description("Patch coverage: N/A (not in PR context)", 0, 0, 0, 0),
                informational)
        ELSE LET target == patchTarget(config.target)
                 isSuccess == RatioGE(patch.v.percentage, target)
             IN  StatusCheckResult(
                    IF isSuccess THEN "success" ELSE "failure",
                    Description(IF isSuccess THEN ">= target" ELSE "< target",
                                RatioToFixed2(patch.v.percentage), 0, target, 0),
                    informational)

-----------------------------------------------------------------------------
(* State machine: aggregation of parsed reports (processCoverage) *)

EmptyAggregated == aggregateResults(<<>>)
NoConfig == StatusConfig(AutoTarget, NullThreshold, FALSE)

\* Before run() starts and before any function is called
InitRestVars ==
    /\ arg = None
    /\ ret = None
    /\ coverageConfig = None
    /\ coverageChecksFailed = FALSE
    /\ failed = None
    /\ remainingFiles = <<>>
    /\ effects = <<>>

\* Before any coverage is processed
InitCoverageVars ==
    /\ content = <<>>
    /\ parsed = EmptyResults
    /\ allResults = <<>>
    /\ aggregated = EmptyAggregated
    /\ diffFiles = <<>>
    /\ patchCoverage = None
    /\ projectConfig = NoConfig
    /\ patchConfig = NoConfig
    /\ projectStatus = None
    /\ patchStatus = None

InitRest == InitCoverageVars /\ InitRestVars

Init == op = "init" /\ InitRest

\* Files of a report as far as aggregation reads them: their identity
SampleFile(path) ==
    FileCoverage(path, 1, 1, 0, 0, 0, 0, calculateRate(1, 1), 0, <<>>, None, None)

SampleFiles == {SampleFile(path) : path \in Paths}

SeqsUpTo(S, n) == UNION {[1..k -> S] : k \in 0..n}

\* The per-report line rate a parser attaches to its counters: calculateRate,
\* or, for a Cobertura report without lines, the report's line-rate attribute
ReportRates(covered, total) ==
    {calculateRate(covered, total)} \cup (IF total = 0 THEN {5000} ELSE {})

\* The size of a report: its three totals and the number of its files
ResultWeight(r) ==
    r.metrics.statements + r.metrics.conditionals + r.metrics.methods + Len(r.files)

RECURSIVE TotalWeight(_)
TotalWeight(results) ==
    IF results = <<>> THEN 0 ELSE ResultWeight(Head(results)) + TotalWeight(Tail(results))

\* The CoverageResults of size MaxWeight at most: totals t, covered counts
\* c <= t, any files
SampleResults ==
    {CoverageResults(
        CoverageMetrics(t[1], c[1], t[2], c[2], t[3], c[3], lr,
                        calculateRate(c[2], t[2])), files) :
       <<t, c, files, lr>> \in
         {x \in [1..3 -> 0..MaxWeight] \X [1..3 -> 0..MaxWeight]
                \X SeqsUpTo(SampleFiles, MaxWeight) \X {0, 5000, 10000} :
            /\ x[1][1] + x[1][2] + x[1][3] + Len(x[3]) <= MaxWeight
            /\ \A i \in 1..3 : x[2][i] <= x[1][i]
            /\ x[4] \in {5000, calculateRate(x[2][1], x[1][1])}
            /\ x[4] = 5000 => (x[1][1] = 0 \/ calculateRate(x[2][1], x[1][1]) = 5000)}}

\* processCoverage: allResults.push(result), for any CoverageResults a parser
\* may return
PushResult ==
    /\ op \in {"init", "push"}
    /\ Len(allResults) < MaxReports
    /\ \E result \in SampleResults :
           /\ TotalWeight(allResults) + ResultWeight(result) <= MaxWeight
           /\ parsed' = result
           /\ allResults' = Append(allResults, result)
    /\ op' = "push"
    /\ UNCHANGED restVars
    /\ UNCHANGED <<content, aggregated, diffFiles, patchCoverage,
                   projectConfig, patchConfig, projectStatus, patchStatus>>

\* processCoverage: aggregatedResults = aggregateResults(allResults)
AggregateResults ==
    /\ op # "aggregateResults"
    /\ aggregated' = aggregateResults(allResults)
    /\ op' = "aggregateResults"
    /\ UNCHANGED restVars
    /\ UNCHANGED <<content, parsed, allResults, diffFiles, patchCoverage,
                   projectConfig, patchConfig, projectStatus, patchStatus>>

NextAggregate == PushResult \/ AggregateResults

SpecAggregate == Init /\ [][NextAggregate]_vars

-----------------------------------------------------------------------------
(* State machine: one report parsed and aggregated (processCoverage with a  *)
(* single coverage file)                                                    *)

ReportPath == "src/a.ts"
Counters == 0..MaxCounter
Lines == 1..MaxLine
Hits == 0..MaxHits

\* The functions from a subset of D to R
PartialFunctions(D, R) == UNION {[S -> R] : S \in SUBSET D}

\* LCOV records: an optional SF, one DA per line of a subset of Lines, at most
\* one BRDA, and optional LF, LH, BRF/BRH and FNF/FNH summaries
LcovRecords ==
    {sf \o [i \in 1..Cardinality(DOMAIN da) |->
               DA(SortedSeq(DOMAIN da)[i], da[SortedSeq(DOMAIN da)[i]])]
        \o br \o lf \o lh \o brf \o fnf :
       sf \in {<<>>, <<SF(ReportPath)>>},
       da \in PartialFunctions(Lines, Hits),
       br \in {<<>>, <<BRDADash(1)>>, <<BRDA(1, 1)>>},
       lf \in {<<>>} \cup {<<Directive("LF", n, 0)>> : n \in Counters},
       lh \in {<<>>} \cup {<<Directive("LH", n, 0)>> : n \in Counters},
       brf \in {<<>>, <<Directive("BRF", 1, 0), Directive("BRH", 1, 0)>>},
       fnf \in {<<>>, <<Directive("FNF", 1, 0), Directive("FNH", 1, 0)>>}}

SecondRecord == <<SF("src/b.ts"), DA(1, 1)>>

LcovContents == {<<r>> : r \in LcovRecords} \cup {<<r, SecondRecord>> : r \in LcovRecords}

\* Istanbul file objects: statements 0..n-1 with start lines, hit maps s and f
\* over ids 0..m-1 (m need not be n), at most one function and one branch
IdMaps(R) == UNION {[0..(n - 1) -> R] : n \in 0..MaxEntries}

IstanbulFiles ==
    {[path |-> ReportPath, statementMap |-> sm, s |-> sh, fnMap |-> fm, f |-> fh,
      branchMap |-> bm, b |-> bh] :
       sm \in IdMaps(Lines), sh \in IdMaps(Hits),
       fm \in {{}, {0}}, fh \in {<<>>, [i \in {0} |-> 1]},
       bm \in {<<>>, [i \in {0} |-> [line |-> 1, locations |-> 2]]},
       bh \in {<<>>, [i \in {0} |-> <<1, 0>>]}}

IstanbulContents == {<<>>} \cup {<<f>> : f \in IstanbulFiles}

\* Clover projects: any statement counters, a few others, at most one file
CloverMetricsAttrs ==
    {[statements |-> st, coveredstatements |-> cst,
      conditionals |-> co, coveredconditionals |-> cco,
      methods |-> 1, coveredmethods |-> cco] :
       st \in Counters, cst \in Counters, co \in 0..1, cco \in 0..1}

CloverFiles ==
    {[path |-> ReportPath, metrics |-> m, line |-> l] :
       m \in CloverMetricsAttrs,
       l \in {<<>>, <<[num |-> 1, count |-> 1, type |-> "stmt"]>>}}

CloverContents ==
    {[metrics |-> m, file |-> <<>>] : m \in CloverMetricsAttrs}
    \cup {[metrics |-> CHOOSE m \in CloverMetricsAttrs :
                          m.statements = MaxCounter /\ m.coveredstatements = 1
                          /\ m.conditionals = 1 /\ m.coveredconditionals = 0,
           file |-> <<f>>] : f \in CloverFiles}

\* Cobertura documents: line-rate and branch-rate attributes, packages of
\* classes of up to MaxEntries lines, numbered 1, 2, ...
CoberturaLineKinds ==
    {CoberturaLine(0, h, FALSE, "absent", 0, 0) : h \in Hits}
    \cup {CoberturaLine(0, h, TRUE, cc, 1, 2) : h \in Hits, cc \in {"absent", "match", "nomatch"}}

CoberturaClasses ==
    {[filename |-> ReportPath,
      lines |-> [i \in 1..Len(ls) |-> [ls[i] EXCEPT !.number = i]],
      methods |-> ms] :
       ls \in SeqsUpTo(CoberturaLineKinds, MaxEntries),
       ms \in {<<>>, <<<<0>>>>, <<<<0, 1>>>>}}

CoberturaContents ==
    {[lineRate |-> lr, branchRate |-> br, packages |-> pk] :
       lr \in {0, 50, 100}, br \in {0, 50},
       pk \in {<<>>, <<<<>>>>} \cup {<<<<c>>>> : c \in CoberturaClasses}}

\* JaCoCo reports: report counters, at most one source file
JacocoCounterLists ==
    {<<>>, <<[type |-> "instruction", missed |-> 1, covered |-> 1]>>}
    \cup {<<[type |-> "line", missed |-> m, covered |-> c]>> : m \in Counters, c \in Counters}
    \cup {<<[type |-> "line", missed |-> m, covered |-> c],
            [type |-> "branch", missed |-> c, covered |-> m],
            [type |-> "method", missed |-> 0, covered |-> 1]>> : m \in Counters, c \in Counters}

JacocoSourceFiles ==
    {[path |-> ReportPath, line |-> l, counter |-> cs] :
       l \in SeqsUpTo({[nr |-> n, ci |-> h, mb |-> 0, cb |-> h] : n \in Lines, h \in Hits},
                      MaxEntries),
       cs \in {<<>>, <<[type |-> "line", missed |-> 1, covered |-> 1]>>}}

JacocoContents ==
    {[sourcefiles |-> <<>>, counter |-> cs] : cs \in JacocoCounterLists}
    \cup {[sourcefiles |-> <<f>>, counter |-> <<[type |-> "line", missed |-> 1, covered |-> 1]>>] :
            f \in JacocoSourceFiles}

\* Codecov documents: at most one file, any value on each line of a subset
CodecovValues ==
    {CodecovNull, CodecovOther} \cup {CodecovHits(h) : h \in Hits}
    \cup {CodecovBranch(c, t) : c \in 0..2, t \in 1..2}

CodecovContents ==
    {<<>>} \cup {<<[path |-> ReportPath, lines |-> l]>> :
                    l \in PartialFunctions(Lines, CodecovValues)}

\* processCoverage with one coverage file: parser.parseContent(content)
\* followed by allResults.push(result), on a fresh list of results
ParseLcov ==
    /\ op = "init"
    /\ \E c \in LcovContents :
           /\ op' = "lcov"
           /\ content' = c
           /\ parsed' = LcovParseContent(c)
           /\ allResults' = <<parsed'>>
           /\ aggregated' = EmptyAggregated
           /\ UNCHANGED restVars
           /\ UNCHANGED <<diffFiles, patchCoverage, projectConfig, patchConfig,
                          projectStatus, patchStatus>>

ParseIstanbul ==
    /\ op = "init"
    /\ \E c \in IstanbulContents :
           /\ op' = "istanbul"
           /\ content' = c
           /\ parsed' = IstanbulParseContent(c)
           /\ allResults' = <<parsed'>>
           /\ aggregated' = EmptyAggregated
           /\ UNCHANGED restVars
           /\ UNCHANGED <<diffFiles, patchCoverage, projectConfig, patchConfig,
                          projectStatus, patchStatus>>

ParseClover ==
    /\ op = "init"
    /\ \E c \in CloverContents :
           /\ op' = "clover"
           /\ content' = c
           /\ parsed' = CloverParseContent(c)
           /\ allResults' = <<parsed'>>
           /\ aggregated' = EmptyAggregated
           /\ UNCHANGED restVars
           /\ UNCHANGED <<diffFiles, patchCoverage, projectConfig, patchConfig,
                          projectStatus, patchStatus>>

ParseCobertura ==
    /\ op = "init"
    /\ \E c \in CoberturaContents :
           /\ op' = "cobertura"
           /\ content' = c
           /\ parsed' = CoberturaParseContent(c)
           /\ allResults' = <<parsed'>>
           /\ aggregated' = EmptyAggregated
           /\ UNCHANGED restVars
           /\ UNCHANGED <<diffFiles, patchCoverage, projectConfig, patchConfig,
                          projectStatus, patchStatus>>

ParseJacoco ==
    /\ op = "init"
    /\ \E c \in JacocoContents :
           /\ op' = "jacoco"
           /\ content' = c
           /\ parsed' = JacocoParseContent(c)
           /\ allResults' = <<parsed'>>
           /\ aggregated' = EmptyAggregated
           /\ UNCHANGED restVars
           /\ UNCHANGED <<diffFiles, patchCoverage, projectConfig, patchConfig,
                          projectStatus, patchStatus>>

ParseCodecov ==
    /\ op = "init"
    /\ \E c \in CodecovContents :
           /\ op' = "codecov"
           /\ content' = c
           /\ parsed' = CodecovParseContent(c)
           /\ allResults' = <<parsed'>>
           /\ aggregated' = EmptyAggregated
           /\ UNCHANGED restVars
           /\ UNCHANGED <<diffFiles, patchCoverage, projectConfig, patchConfig,
                          projectStatus, patchStatus>>

NextParse ==
    \/ ParseLcov
    \/ ParseIstanbul
    \/ ParseClover
    \/ ParseCobertura
    \/ ParseJacoco
    \/ ParseCodecov
    \/ AggregateResults

SpecParse == Init /\ [][NextParse]_vars

-----------------------------------------------------------------------------
(* State machine: the status checks of run(), applied to the aggregated     *)
(* results and the patch coverage that the earlier steps hand them          *)

\* Line rates of results with MaxSteps statements
RateGrid == {calculateRate(c, MaxSteps) : c \in 0..MaxSteps}

\* comparison.deltaLineRate: a current line rate minus a base line rate
Deltas == {a - b : a \in RateGrid, b \in RateGrid}

Comparisons == {None} \cup {Some([deltaLineRate |-> d]) : d \in Deltas}

\* aggregatedCoverageResults as processCoverage returns them
AggregatedInputs ==
    {[aggregateResults(<<CoverageResults(
          CoverageMetrics(MaxSteps, c, 0, 0, 0, 0, calculateRate(c, MaxSteps), 0),
          <<>>)>>) EXCEPT !.comparison = cmp] :
       c \in 0..MaxSteps, cmp \in Comparisons}

\* A patch of t added lines, the first c of them covered, as
\* analyzePatchCoverage reports it
PatchOf(c, t) ==
    analyzePatchCoverage(
        <<DiffFile("a.ts", FALSE, <<[i \in 1..t |-> Change("add", i)]>>)>>,
        [files |-> <<FileCoverage("a.ts", t, c, 0, 0, 0, 0, calculateRate(c, t), 0,
                         [i \in 1..t |-> [lineNumber |-> i,
                                          count |-> IF i <= c THEN 1 ELSE 0,
                                          type |-> "stmt"]],
                         None, None)>>]).result

\* patchCoverage: null outside a pull request
PatchInputs ==
    {None} \cup UNION {{Some(PatchOf(c, t)) : c \in 0..t} : t \in 0..MaxPatchLines}

Targets == {NumberTarget(t) : t \in RateGrid} \cup {AutoTarget, OtherTarget}

Thresholds ==
    {NullThreshold}
    \cup {NumberThreshold(calculateRate(c, MaxSteps)) : c \in 0..(MaxSteps \div 2)}

StatusConfigs ==
    {StatusConfig(t, th, inf) : t \in Targets, th \in Thresholds, inf \in BOOLEAN}

InitThreshold ==
    /\ op = "init"
    /\ content = <<>>
    /\ parsed = EmptyResults
    /\ allResults = <<>>
    /\ aggregated \in AggregatedInputs
    /\ diffFiles = <<>>
    /\ patchCoverage \in PatchInputs
    /\ projectConfig = NoConfig
    /\ patchConfig = NoConfig
    /\ projectStatus = None
    /\ patchStatus = None
    /\ InitRestVars

\* run: projectStatus = checkProjectStatus(aggregatedCoverageResults, projectConfig)
CheckProjectStatus ==
    /\ op = "init"
    /\ projectConfig' \in StatusConfigs
    /\ projectStatus' = [present |-> TRUE,
                         v |-> checkProjectStatus(aggregated, projectConfig')]
    /\ op' = "checkProjectStatus"
    /\ UNCHANGED restVars
    /\ UNCHANGED <<content, parsed, allResults, aggregated, diffFiles,
                   patchCoverage, patchConfig, patchStatus>>

\* run: patchStatus = checkPatchStatus(patchCoverage, patchConfig)
CheckPatchStatus ==
    /\ op = "init"
    /\ patchConfig' \in StatusConfigs
    /\ patchStatus' = [present |-> TRUE,
                       v |-> checkPatchStatus(patchCoverage, patchConfig')]
    /\ op' = "checkPatchStatus"
    /\ UNCHANGED restVars
    /\ UNCHANGED <<content, parsed, allResults, aggregated, diffFiles,
                   patchCoverage, projectConfig, projectStatus>>

NextThreshold == CheckProjectStatus \/ CheckPatchStatus

SpecThreshold == InitThreshold /\ [][NextThreshold]_vars

-----------------------------------------------------------------------------
(* State machine: the patch analysis of run(), applied to aggregated        *)
(* results and a parsed pull request diff                                   *)

SeqsOfLen(S, n) == [1..n -> S]

\* LineCoverage entries of a coverage file: never hit, or hit MaxHits times
LineEntries ==
    {[lineNumber |-> n, count |-> h, type |-> "stmt"] : n \in Lines, h \in {0, MaxHits}}

\* A FileCoverage with the given line entries and the counters they add up to
PatchFile(path, lines) ==
    FileCoverage(path, Len(lines), PositiveEntries([i \in 1..Len(lines) |-> lines[i].count]),
                 0, 0, 0, 0,
                 calculateRate(PositiveEntries([i \in 1..Len(lines) |-> lines[i].count]),
                               Len(lines)),
                 0, lines, None, None)

\* Lists of at most two coverage files with n line entries in all; the
\* second file has at most one of them and may carry the path of the first
CoverageFileLists(n) ==
    (IF n = 0 THEN {<<>>} ELSE {})
    \cup {<<PatchFile(p, ls)>> : p \in Paths, ls \in SeqsOfLen(LineEntries, n)}
    \cup UNION {{<<PatchFile(p1, l1), PatchFile(p2, l2)>> :
                    p1 \in {"a.ts"}, p2 \in Paths,
                    l1 \in SeqsOfLen(LineEntries, n - i),
                    l2 \in SeqsOfLen(LineEntries, i)} : i \in {0, 1} \cap 0..n}

\* Changes of a chunk as parse-diff reports them: added lines, and a deleted
\* line whose number is that of a line of the new file
Changes == {Change("add", n) : n \in Lines} \cup {Change("del", 1)}

\* Chunk lists holding j changes: one chunk, or the first change in a chunk
\* of its own
ChunkLists(j) ==
    IF j = 0 THEN {<<>>}
    ELSE {<<c>> : c \in SeqsOfLen(Changes, j)}
         \cup (IF j >= 2
               THEN {<<SubSeq(c, 1, 1), SubSeq(c, 2, j)>> : c \in SeqsOfLen(Changes, j)}
               ELSE {})

\* Diff entries of changed files
ChangedEntries(j) == {DiffFile(p, FALSE, ch) : p \in Paths, ch \in ChunkLists(j)}

\* Diff entries: a changed file, a deleted file, an entry without destination
DiffEntries(j) ==
    ChangedEntries(j)
    \cup {DiffFile("", FALSE, ch) : ch \in ChunkLists(j)}
    \cup {DiffFile("/dev/null", TRUE, ch) : ch \in ChunkLists(j)}

\* Diffs of at most two entries with k changes in all, the first entry of two
\* a changed file, the second with at most one change
Diffs(k) ==
    (IF k = 0 THEN {<<>>} ELSE {})
    \cup {<<e>> : e \in DiffEntries(k)}
    \cup UNION {{<<e1, e2>> : e1 \in ChangedEntries(k - j), e2 \in DiffEntries(j)} :
                  j \in {0, 1} \cap 0..k}

InitPatch ==
    /\ op = "init"
    /\ content = <<>>
    /\ parsed = EmptyResults
    /\ allResults = <<>>
    /\ \E n \in 0..MaxPatchItems, k \in 0..MaxPatchItems :
          /\ n + k <= MaxPatchItems
          /\ \E files \in CoverageFileLists(n) :
                aggregated = aggregateResults(<<CoverageResults(
                                SummedMetrics(files,
                                    calculateRate(SumField(files, "coveredStatements"),
                                                  SumField(files, "statements")),
                                    0),
                                files)>>)
          /\ diffFiles \in Diffs(k)
    /\ patchCoverage = None
    /\ projectConfig = NoConfig
    /\ patchConfig = NoConfig
    /\ projectStatus = None
    /\ patchStatus = None
    /\ InitRestVars

\* run: patchCoverage = analyzePatchCoverage(diffContent, aggregatedCoverageResults),
\* which also writes missingLines of the files it matched
AnalyzePatchCoverage ==
    /\ op = "init"
    /\ patchCoverage' = [present |-> TRUE,
                         v |-> analyzePatchCoverage(diffFiles, aggregated).result]
    /\ aggregated' = [aggregated EXCEPT
                        !.files = analyzePatchCoverage(diffFiles, aggregated).files]
    /\ op' = "analyzePatchCoverage"
    /\ UNCHANGED restVars
    /\ UNCHANGED <<content, parsed, allResults, diffFiles,
                   projectConfig, patchConfig, projectStatus, patchStatus>>

NextPatch == AnalyzePatchCoverage

SpecPatch == InitPatch /\ [][NextPatch]_vars

-----------------------------------------------------------------------------
(* Claims about the aggregator *)

\* The sum of one counter over the reports handed to aggregateResults
MetricTotal(f) == SeqSum([i \in 1..Len(allResults) |-> allResults[i].metrics[f]])

\* The number of files of the reports before report i
FilesBefore(i) == SeqSum([k \in 1..(i - 1) |-> Len(allResults[k].files)])

\* C1: aggregateResults returns, for every sequence of reports (the empty one
\* included), totals that are the field-wise sums of the reports' six
\* counters, and a files list that is the concatenation of the reports' files
\* in input order, duplicate paths kept.
C1_AggregationAdditive ==
    op = "aggregateResults" =>
        /\ aggregated.totalStatements = MetricTotal("statements")
        /\ aggregated.coveredStatements = MetricTotal("coveredStatements")
        /\ aggregated.totalConditionals = MetricTotal("conditionals")
        /\ aggregated.coveredConditionals = MetricTotal("coveredConditionals")
        /\ aggregated.totalMethods = MetricTotal("methods")
        /\ aggregated.coveredMethods = MetricTotal("coveredMethods")
        /\ Len(aggregated.files) = FilesBefore(Len(allResults) + 1)
        /\ \A i \in 1..Len(allResults) : \A j \in 1..Len(allResults[i].files) :
              aggregated.files[FilesBefore(i) + j] = allResults[i].files[j]

\* Two reports were aggregated that both list a file of the same path
C1_Witness ==
    /\ op = "aggregateResults"
    /\ Len(allResults) = 2
    /\ aggregated.totalStatements > 0
    /\ \E j \in 1..Len(allResults[1].files), k \in 1..Len(allResults[2].files) :
          allResults[1].files[j].path = allResults[2].files[k].path

\* r is the quotient 100 * covered / total rounded to the nearest hundredth
\* (0 when total is 0)
IsRateOf(r, covered, total) ==
    IF total = 0 THEN r = 0
    ELSE /\ 2 * (r * total - 10000 * covered) <= total
         /\ 2 * (10000 * covered - r * total) <= total

\* C2: the aggregated lineRate and branchRate are functions of the summed
\* counters alone (summed covered / summed total * 100, to two decimals), so
\* the rates of the reports and of their files have no influence.
C2_RatesFromSums ==
    op = "aggregateResults" =>
        /\ IsRateOf(aggregated.lineRate,
                    MetricTotal("coveredStatements"), MetricTotal("statements"))
        /\ IsRateOf(aggregated.branchRate,
                    MetricTotal("coveredConditionals"), MetricTotal("conditionals"))

\* Two reports with statements were aggregated and the aggregated lineRate is
\* not the mean of their two rates
C2_Witness ==
    /\ op = "aggregateResults"
    /\ Len(allResults) = 2
    /\ allResults[1].metrics.statements > 0
    /\ allResults[2].metrics.statements > 0
    /\ 2 * aggregated.lineRate # allResults[1].metrics.lineRate + allResults[2].metrics.lineRate


-----------------------------------------------------------------------------
(* Claims about the parsers, checked under SpecParse *)

ZeroDenominatorSafe(r) ==
    /\ r.statements = 0 => r.lineRate = 0
    /\ r.conditionals = 0 => r.branchRate = 0

\* C3: zero-denominator safety.  In every result of a parser's parseContent
\* (the report-level metrics and every FileCoverage) and of aggregateResults,
\* statements = 0 implies lineRate = 0 and conditionals = 0 implies
\* branchRate = 0.  Refuted by CoberturaParser.parseContent, which returns
\* the <coverage line-rate> attribute times 100 when no statement was counted.
C3_ZeroDenominatorSafety ==
    /\ ZeroDenominatorSafe(parsed.metrics)
    /\ \A i \in 1..Len(parsed.files) : ZeroDenominatorSafe(parsed.files[i])
    /\ aggregated.totalStatements = 0 => aggregated.lineRate = 0
    /\ aggregated.totalConditionals = 0 => aggregated.branchRate = 0

\* C4: every FileCoverage produced by a parser has
\* coveredStatements <= statements, so that its lineRate is at most 100.
\* Refuted by LcovParser.parseRecord (LH above LF), CloverParser.parseMetrics
\* (coveredstatements above statements) and IstanbulParser.parseFileCoverage
\* (hits of ids that statementMap lacks).
C4_CoveredAtMostStatements ==
    \A i \in 1..Len(parsed.files) :
        /\ parsed.files[i].coveredStatements <= parsed.files[i].statements
        /\ parsed.files[i].lineRate <= 100 * 100


-----------------------------------------------------------------------------
(* Claims about the threshold checker, checked under SpecThreshold *)

Statuses == {"success", "failure"}

\* C5: with a numeric target checkProjectStatus returns success exactly when
\* results.lineRate >= target (equality is success), whatever the threshold
\* and whether or not there is a comparison.
C5_NumericTarget ==
    (op = "checkProjectStatus" /\ projectConfig.target.kind = "number") =>
        /\ projectStatus.v.status \in Statuses
        /\ projectStatus.v.status = "success"
              <=> aggregated.lineRate >= projectConfig.target.value

\* The line rate equals the target while the comparison shows a drop larger
\* than the threshold: the check succeeds
C5_Witness ==
    /\ op = "checkProjectStatus"
    /\ projectConfig.target.kind = "number"
    /\ aggregated.lineRate = projectConfig.target.value
    /\ projectConfig.threshold.kind = "number"
    /\ aggregated.comparison.present
    /\ aggregated.comparison.v.deltaLineRate < -projectConfig.threshold.value
    /\ projectStatus.v.status = "success"

C7_PatchStatus ==
    op = "checkPatchStatus" =>
        IF ~patchCoverage.present
        THEN /\ patchStatus.v.status = "success"
             /\ patchStatus.v.description.text = "Patch coverage: N/A (not in PR context)"
        ELSE patchConfig.target.kind \in {"number", "auto"} =>
                LET target == IF patchConfig.target.kind = "number"
                              THEN patchConfig.target.value ELSE 80 * 100
                    pct == patchCoverage.v.percentage
                IN  /\ patchStatus.v.status \in Statuses
                    /\ patchStatus.v.status = "success"
                          <=> pct.n >= target * pct.d

\* A patch covered to exactly 80% passes the "auto" target
C7_Witness ==
    /\ op = "checkPatchStatus"
    /\ patchCoverage.present
    /\ patchCoverage.v.totalLines > 0
    /\ patchConfig.target.kind = "auto"
    /\ patchCoverage.v.percentage.n = 80 * 100 * patchCoverage.v.percentage.d
    /\ patchStatus.v.status = "success"

\* C8: the result's informational is config.informational, and the call with
\* only config.informational changed returns the same status and description.
C8_InformationalPassedThrough ==
    /\ op = "checkProjectStatus" =>
          LET other == checkProjectStatus(aggregated,
                          [projectConfig EXCEPT !.informational = ~@])
          IN  /\ projectStatus.v.informational = projectConfig.informational
              /\ other.informational = ~projectConfig.informational
              /\ other.status = projectStatus.v.status
              /\ other.description = projectStatus.v.description
    /\ op = "checkPatchStatus" =>
          LET other == checkPatchStatus(patchCoverage,
                          [patchConfig EXCEPT !.informational = ~@])
          IN  /\ patchStatus.v.informational = patchConfig.informational
              /\ other.informational = ~patchConfig.informational
              /\ other.status = patchStatus.v.status
              /\ other.description = patchStatus.v.description

\* An informational project check that fails
C8_Witness ==
    /\ op = "checkProjectStatus"
    /\ projectConfig.informational
    /\ projectStatus.v.informational
    /\ projectStatus.v.status = "failure"


-----------------------------------------------------------------------------
(* Claims about the patch analyzer, checked under SpecPatch *)

\* The changes of diff entry e, chunk after chunk
ChangesOf(e) == Flatten(diffFiles[e].chunks)

\* The positions <<e, k>> of the diff: change k of entry e
DiffPositions ==
    UNION {{<<e, k>> : k \in 1..Len(ChangesOf(e))} : e \in 1..Len(diffFiles)}

\* The coverage file a diff entry is matched with: the one with exactly its
\* destination path (the last one if several carry it), 0 if there is none
MatchedFile(e) ==
    IF \E f \in 1..Len(aggregated.files) : aggregated.files[f].path = diffFiles[e].to
    THEN CHOOSE f \in 1..Len(aggregated.files) :
            /\ aggregated.files[f].path = diffFiles[e].to
            /\ \A g \in (f + 1)..Len(aggregated.files) :
                  aggregated.files[g].path # diffFiles[e].to
    ELSE 0

\* Position pos is an added line, of an entry that is not deleted, whose
\* file has a coverage entry for the line (the first one decides) with
\* hit(count) true
Tracked(pos, hit(_)) ==
    LET e == pos[1]
        change == ChangesOf(e)[pos[2]]
        f == MatchedFile(e)
    IN  /\ ~diffFiles[e].deleted
        /\ diffFiles[e].to # ""
        /\ change.type = "add"
        /\ f # 0
        /\ \E i \in 1..Len(aggregated.files[f].lines) :
              /\ aggregated.files[f].lines[i].lineNumber = change.ln
              /\ \A j \in 1..(i - 1) :
                    aggregated.files[f].lines[j].lineNumber # change.ln
              /\ hit(aggregated.files[f].lines[i].count)

IsCovered(count) == count > 0
IsMissed(count) == count = 0

\* C9: analyzePatchCoverage counts exactly the added lines of non-deleted
\* entries whose destination path is the path of a coverage file and whose
\* line number has a coverage entry there, as covered when count > 0 and as
\* missed when count = 0; nothing else is counted, and
\* totalLines = coveredLines + missedLines.
C9_PatchCounting ==
    op = "analyzePatchCoverage" =>
        /\ patchCoverage.v.coveredLines =
              Cardinality({pos \in DiffPositions : Tracked(pos, IsCovered)})
        /\ patchCoverage.v.missedLines =
              Cardinality({pos \in DiffPositions : Tracked(pos, IsMissed)})
        /\ patchCoverage.v.totalLines =
              patchCoverage.v.coveredLines + patchCoverage.v.missedLines

\* One added line is counted while another added line of the same file has
\* no coverage entry and an entry of the diff has no coverage file
C9_Witness ==
    /\ op = "analyzePatchCoverage"
    /\ patchCoverage.v.totalLines = 1
    /\ \E pos \in DiffPositions :
          /\ MatchedFile(pos[1]) # 0
          /\ ChangesOf(pos[1])[pos[2]].type = "add"
          /\ ~Tracked(pos, IsCovered)
          /\ ~Tracked(pos, IsMissed)
    /\ \E e \in 1..Len(diffFiles) :
          ~diffFiles[e].deleted /\ diffFiles[e].to # "" /\ MatchedFile(e) = 0

\* C10: the percentage is 100 when totalLines = 0 and
\* coveredLines / totalLines * 100 otherwise.
C10_Percentage ==
    op = "analyzePatchCoverage" =>
        LET p == patchCoverage.v
        IN  IF p.totalLines = 0
            THEN p.percentage.n = 100 * 100 * p.percentage.d
            ELSE p.percentage.n * p.totalLines
                    = 100 * 100 * p.coveredLines * p.percentage.d

\* A diff that adds lines only to a file absent from the coverage: 100
C10_Witness ==
    /\ op = "analyzePatchCoverage"
    /\ patchCoverage.v.totalLines = 0
    /\ patchCoverage.v.percentage.n = 100 * 100 * patchCoverage.v.percentage.d
    /\ Len(aggregated.files) > 0
    /\ \E pos \in DiffPositions :
          /\ ChangesOf(pos[1])[pos[2]].type = "add"
          /\ ~diffFiles[pos[1]].deleted
          /\ diffFiles[pos[1]].to # ""
          /\ MatchedFile(pos[1]) = 0


\* The diff entries analyzePatchCoverage does not skip: not a deletion, and
\* with a destination path
ChangedEntryIndexes ==
    {e \in 1..Len(diffFiles) : ~diffFiles[e].deleted /\ diffFiles[e].to # ""}

\* The first entry of the diff, among those not skipped, with path p
FirstAppearance(p) ==
    CHOOSE e \in ChangedEntryIndexes :
        /\ diffFiles[e].to = p
        /\ \A d \in ChangedEntryIndexes : diffFiles[d].to = p => e <= d

\* C11: changedFiles holds exactly the destination paths of the diff entries
\* that are not deletions, each once, in the order of their first appearance
\* in the diff, whether or not the coverage has a file of that path.
C11_ChangedFiles ==
    op = "analyzePatchCoverage" =>
        LET changedFiles == patchCoverage.v.changedFiles
        IN  /\ {changedFiles[i] : i \in 1..Len(changedFiles)}
                  = {diffFiles[e].to : e \in ChangedEntryIndexes}
            /\ \A i, j \in 1..Len(changedFiles) :
                  i < j => /\ changedFiles[i] # changedFiles[j]
                           /\ FirstAppearance(changedFiles[i])
                                 < FirstAppearance(changedFiles[j])

\* Two entries of the diff touch one path, which no coverage file carries:
\* the path is listed once
C11_Witness ==
    /\ op = "analyzePatchCoverage"
    /\ Len(diffFiles) = 2
    /\ ChangedEntryIndexes = {1, 2}
    /\ diffFiles[1].to = diffFiles[2].to
    /\ MatchedFile(1) = 0
    /\ patchCoverage.v.changedFiles = <<diffFiles[1].to>>

\* C12: analyzePatchCoverage is read-only over its inputs: the call leaves
\* the AggregatedCoverageResults argument as it was, every field of every
\* FileCoverage included.  Refuted by the assignment to
\* coverageFile.missingLines for every file that enters the breakdown: a file
\* without missingLines has an empty missingLines list after the call.
C12_InputsUnchanged == [][aggregated' = aggregated]_vars


-----------------------------------------------------------------------------
(* Format detection *)

\* A file path is the sequence of its pieces: names, "." and "/".  A piece
\* is lower case unless LowerCase says otherwise.
LowerCase(piece) ==
    CASE piece = "CLOVER" -> "clover"
      [] piece = "XML" -> "xml"
      [] OTHER -> piece

\* filePath.toLowerCase()
ToLowerCase(filePath) == [i \in 1..Len(filePath) |-> LowerCase(filePath[i])]

\* s.endsWith(suffix)
EndsWith(s, suffix) ==
    /\ Len(s) >= Len(suffix)
    /\ SubSeq(s, Len(s) - Len(suffix) + 1, Len(s)) = suffix

\* s.includes(piece), for a needle that is one piece
IncludesPiece(s, piece) == \E i \in 1..Len(s) : s[i] = piece

\* BaseCoverageParser.getFileExtension: the lower-cased text after the last
\* ".", the empty text when the path has no "."
getFileExtension(filePath) ==
    LET dots == {i \in 1..Len(filePath) : filePath[i] = "."}
    IN  IF dots = {} THEN <<>>
        ELSE LET last == CHOOSE i \in dots : \A j \in dots : j <= i
             IN  ToLowerCase(SubSeq(filePath, last + 1, Len(filePath)))

\* if (filePath): the hint is given and is not the empty string
HasPath(filePath) == filePath.present /\ filePath.v # <<>>

\* content.includes(marker): a content is kept as the set of the markers it
\* contains and, for the JSON parsers, the shape JSON.parse finds (json)
Includes(c, marker) == marker \in c.markers

\* CloverParser.canParse
CloverCanParse(c, filePath) ==
    IF HasPath(filePath) /\ EndsWith(ToLowerCase(filePath.v), <<"clover", ".", "xml">>)
    THEN TRUE
    ELSE IF HasPath(filePath) /\ getFileExtension(filePath.v) # <<"xml">>
    THEN FALSE
    ELSE Includes(c, "<coverage") /\ Includes(c, "<project") /\ Includes(c, "clover")

\* CoberturaParser.canParse
CoberturaCanParse(c, filePath) ==
    IF HasPath(filePath) /\ getFileExtension(filePath.v) # <<"xml">>
    THEN FALSE
    ELSE /\ Includes(c, "<coverage")
         /\ Includes(c, "line-rate")
         /\ Includes(c, "<packages")
         /\ ~Includes(c, "<project")
         /\ ~Includes(c, "<report")

\* JaCoCoParser.canParse
JacocoCanParse(c, filePath) ==
    IF HasPath(filePath) /\ EndsWith(ToLowerCase(filePath.v), <<"jacoco", ".", "xml">>)
    THEN TRUE
    ELSE IF HasPath(filePath) /\ getFileExtension(filePath.v) # <<"xml">>
    THEN FALSE
    ELSE /\ Includes(c, "<report")
         /\ Includes(c, "<counter type=")
         /\ ~Includes(c, "<coverage")

\* LcovParser.canParse
LcovCanParse(c, filePath) ==
    IF /\ HasPath(filePath)
       /\ \/ getFileExtension(filePath.v) = <<"info">>
          \/ EndsWith(ToLowerCase(filePath.v), <<"lcov", ".", "info">>)
          \/ EndsWith(ToLowerCase(filePath.v), <<".", "lcov">>)
    THEN TRUE
    ELSE /\ Includes(c, "SF:")
         /\ (Includes(c, "DA:") \/ Includes(c, "LF:"))
         /\ Includes(c, "end_of_record")

\* IstanbulParser.canParse
IstanbulCanParse(c, filePath) ==
    IF /\ HasPath(filePath)
       /\ \/ EndsWith(ToLowerCase(filePath.v), <<"coverage-final", ".", "json">>)
          \/ EndsWith(ToLowerCase(filePath.v), <<"coverage-summary", ".", "json">>)
    THEN TRUE
    ELSE IF HasPath(filePath) /\ getFileExtension(filePath.v) # <<"json">>
    THEN FALSE
    ELSE /\ Includes(c, "statementMap")
         /\ Includes(c, "fnMap")
         /\ Includes(c, "branchMap")
         /\ (Includes(c, "s") \/ Includes(c, "f"))

\* What CodecovParser.canParse finds in JSON.parse(content):
\*   "invalid"        JSON.parse throws
\*   "noCoverage"     no "coverage" key holding an object
\*   "noFiles"        coverage is an empty object
\*   "firstNotObject" the first value of coverage is not an object
\*   "firstEmpty"     the first file object has no key
\*   "numericKeys"    some key of the first file object is made of digits
\*   "noNumericKeys"  none is
JsonShapes ==
    {"invalid", "noCoverage", "noFiles", "firstNotObject", "firstEmpty",
     "numericKeys", "noNumericKeys"}

\* CodecovParser.canParse
CodecovCanParse(c, filePath) ==
    IF HasPath(filePath) /\ EndsWith(ToLowerCase(filePath.v), <<"codecov", ".", "json">>)
    THEN TRUE
    ELSE IF HasPath(filePath) /\ getFileExtension(filePath.v) # <<"json">>
    THEN FALSE
    ELSE IF c.json \in {"invalid", "noCoverage"}
    THEN FALSE
    ELSE IF Includes(c, "statementMap") \/ Includes(c, "fnMap") \/ Includes(c, "branchMap")
    THEN FALSE
    ELSE c.json \in {"noFiles", "firstEmpty", "numericKeys"}


\* CoverageParserFactory.parsers: the format tags of the registered parsers,
\* in order
parsers == <<"clover", "cobertura", "jacoco", "lcov", "istanbul", "go">>

\* parser.canParse(content, filePath) of a registered parser.  GoParser is
\* not part of the sources at hand: goAccepts stands for what its canParse
\* returns.
canParse(format, c, filePath, goAccepts) ==
    CASE format = "clover" -> CloverCanParse(c, filePath)
      [] format = "cobertura" -> CoberturaCanParse(c, filePath)
      [] format = "jacoco" -> JacocoCanParse(c, filePath)
      [] format = "lcov" -> LcovCanParse(c, filePath)
      [] format = "istanbul" -> IstanbulCanParse(c, filePath)
      [] format = "go" -> goAccepts

\* What a factory call gives: a parser (known by its format tag), null, or
\* a thrown Error
Parser(format) == [kind |-> "parser", format |-> format, message |-> ""]
Null == [kind |-> "null", format |-> "", message |-> ""]
Thrown(message, format) == [kind |-> "error", format |-> format, message |-> message]

\* CoverageParserFactory.getParser
getParser(format) ==
    IF \E i \in 1..Len(parsers) : parsers[i] = format
    THEN Parser(format)
    ELSE Thrown("Unsupported coverage format: ", format)

\* CoverageParserFactory.detectFormatFromPath: a format (optional)
detectFormatFromPath(filePath) ==
    LET lowerPath == ToLowerCase(filePath)
    IN  IF EndsWith(lowerPath, <<"clover", ".", "xml">>) THEN Some("clover")
        ELSE IF \/ EndsWith(lowerPath, <<"cobertura", ".", "xml">>)
                \/ IncludesPiece(lowerPath, "cobertura") THEN Some("cobertura")
        ELSE IF \/ EndsWith(lowerPath, <<"jacoco", ".", "xml">>)
                \/ IncludesPiece(lowerPath, "jacoco") THEN Some("jacoco")
        ELSE IF \/ EndsWith(lowerPath, <<"lcov", ".", "info">>)
                \/ EndsWith(lowerPath, <<".", "lcov">>) THEN Some("lcov")
        ELSE IF \/ EndsWith(lowerPath, <<"coverage-final", ".", "json">>)
                \/ IncludesPiece(lowerPath, "istanbul") THEN Some("istanbul")
        ELSE IF \/ EndsWith(lowerPath, <<"coverage", ".", "out">>)
                \/ EndsWith(lowerPath, <<"cover", ".", "out">>)
                \/ EndsWith(lowerPath, <<".", "coverprofile">>) THEN Some("go")
        ELSE None

\* The fallback of detectParser once no parser accepted the content
detectFromPath(filePath) ==
    IF HasPath(filePath) /\ detectFormatFromPath(filePath.v).present
    THEN getParser(detectFormatFromPath(filePath.v).v)
    ELSE Null

\* Mutant: the last parser that accepts is returned
detectParserLast(c, filePath, goAccepts) ==
    LET accepting == {i \in 1..Len(parsers) : canParse(parsers[i], c, filePath, goAccepts)}
    IN  IF accepting # {}
        THEN Parser(parsers[CHOOSE i \in accepting : \A j \in accepting : j <= i])
        ELSE detectFromPath(filePath)

\* CoverageParserFactory.detectParser
detectParser(c, filePath, goAccepts) ==
    LET accepting == {i \in 1..Len(parsers) : canParse(parsers[i], c, filePath, goAccepts)}
    IN  IF accepting # {}
        THEN Parser(parsers[CHOOSE i \in accepting : \A j \in accepting : i <= j])
        ELSE detectFromPath(filePath)

-----------------------------------------------------------------------------
(* State machine: the factory called on one content and path hint           *)

MaxFragments == 2   \* the fragments a content is put together from

\* The markers the canParse methods look for.  "statementMap", "fnMap",
\* "branchMap", "s" and "f" stand for these names in double quotes,
\* "<counter type=" for that text followed by a double quote.
Markers ==
    {"<coverage", "<project", "clover", "line-rate", "<packages", "<report",
     "<counter type=", "SF:", "DA:", "LF:", "end_of_record",
     "statementMap", "fnMap", "branchMap", "s", "f"}

\* Pieces of text a content is put together from: the signature of each
\* format, and each marker alone
Fragments ==
    {{"<coverage", "<project", "clover"},
     {"<coverage", "line-rate", "<packages"},
     {"<report", "<counter type="},
     {"SF:", "DA:", "end_of_record"},
     {"SF:", "LF:", "end_of_record"},
     {"statementMap", "fnMap", "branchMap", "s"}}
    \cup {{x} : x \in Markers}

MarkerSets ==
    {UNION fs : fs \in {x \in SUBSET Fragments : Cardinality(x) <= MaxFragments}}

\* A content that JSON.parse accepts is taken to hold markers of the JSON
\* formats only
JsonMarkers == {"statementMap", "fnMap", "branchMap", "s", "f"}

Contents ==
    {c \in [markers : MarkerSets, json : JsonShapes] :
        c.json # "invalid" => c.markers \subseteq JsonMarkers}

\* Path hints: none, the empty string, and some file names
PathHints ==
    {None, Some(<<>>)} \cup
    {Some(x) : x \in
       {<<"clover", ".", "xml">>, <<"CLOVER", ".", "XML">>,
        <<"coverage", ".", "xml">>, <<"cobertura", ".", "xml">>,
        <<"cobertura", "/", "coverage", ".", "txt">>,
        <<"jacoco", ".", "xml">>, <<"jacoco", "/", "report">>,
        <<"lcov", ".", "info">>, <<"coverage", ".", "info">>, <<"app", ".", "lcov">>,
        <<"coverage-final", ".", "json">>, <<"coverage-summary", ".", "json">>,
        <<"codecov", ".", "json">>, <<"coverage", ".", "json">>,
        <<"istanbul", "/", "report", ".", "txt">>,
        <<"coverage", ".", "out">>, <<"cover", ".", "out">>,
        <<"app", ".", "coverprofile">>, <<"report", ".", "txt">>,
        <<"test", ".", "out">>, <<"jacoco", "/", "lcov", ".", "info">>}}

\* The format tokens handed to getParser
FormatTokens ==
    {"clover", "cobertura", "jacoco", "lcov", "istanbul", "go", "codecov", "auto", "xml"}

coverageVars ==
    <<content, parsed, allResults, aggregated, diffFiles, patchCoverage,
      projectConfig, patchConfig, projectStatus, patchStatus>>

runVars == <<coverageConfig, coverageChecksFailed, failed, remainingFiles, effects>>

InitDetect ==
    /\ op = "init"
    /\ InitCoverageVars
    /\ arg \in [content : Contents, filePath : PathHints, goAccepts : BOOLEAN]
    /\ ret = None
    /\ coverageConfig = None
    /\ coverageChecksFailed = FALSE
    /\ failed = None
    /\ remainingFiles = <<>>
    /\ effects = <<>>

\* CoverageParserFactory.detectParser(content, filePath); arg.goAccepts is
\* what GoParser.canParse returns for them
DetectParser ==
    /\ op = "init"
    /\ ret' = [present |-> TRUE,
               v |-> detectParser(arg.content, arg.filePath, arg.goAccepts)]
    /\ op' = "detectParser"
    /\ UNCHANGED <<arg, coverageVars, runVars>>

\* parser.canParse(content, filePath) of every parser of the sources: the
\* formats of those that accept
CanParse ==
    /\ op = "init"
    /\ ret' = [present |-> TRUE,
               v |-> {f \in {"clover", "cobertura", "jacoco", "lcov", "istanbul"} :
                         canParse(f, arg.content, arg.filePath, FALSE)}
                     \cup (IF CodecovCanParse(arg.content, arg.filePath)
                           THEN {"codecov"} ELSE {})]
    /\ op' = "canParse"
    /\ UNCHANGED <<arg, coverageVars, runVars>>

\* CoverageParserFactory.getParser(format)
GetParser ==
    /\ op = "init"
    /\ \E format \in FormatTokens :
           /\ arg' = [present |-> TRUE, v |-> format]
           /\ ret' = [present |-> TRUE, v |-> getParser(format)]
    /\ op' = "getParser"
    /\ UNCHANGED <<coverageVars, runVars>>

\* CoverageParserFactory.detectFormatFromPath(filePath)
DetectFormatFromPath ==
    /\ op = "init"
    /\ arg.filePath.present
    /\ ret' = [present |-> TRUE, v |-> detectFormatFromPath(arg.filePath.v)]
    /\ op' = "detectFormatFromPath"
    /\ UNCHANGED <<arg, coverageVars, runVars>>

NextDetect == DetectParser \/ CanParse \/ GetParser \/ DetectFormatFromPath

SpecDetect == InitDetect /\ [][NextDetect]_vars


-----------------------------------------------------------------------------
(* Claims about format detection, checked under SpecDetect *)

\* The registered parser at position i accepts the content and path hint
Accepts(i) == canParse(parsers[i], arg.content, arg.filePath, arg.goAccepts)

\* C13: detectParser returns the first parser, in the order of the
\* registry, whose canParse accepts; if none accepts and a path hint is given
\* for which detectFormatFromPath finds a format, the parser of that format;
\* otherwise null.  It never throws.
C13_DetectFirstAccepting ==
    op = "detectParser" =>
        /\ ret.v.kind # "error"
        /\ (\E i \in 1..Len(parsers) : Accepts(i)) =>
              /\ ret.v.kind = "parser"
              /\ \E i \in 1..Len(parsers) :
                    /\ Accepts(i)
                    /\ \A j \in 1..(i - 1) : ~Accepts(j)
                    /\ ret.v.format = parsers[i]
        /\ (\A i \in 1..Len(parsers) : ~Accepts(i)) =>
              IF HasPath(arg.filePath) /\ detectFormatFromPath(arg.filePath.v).present
              THEN /\ ret.v.kind = "parser"
                   /\ ret.v.format = detectFormatFromPath(arg.filePath.v).v
              ELSE ret.v.kind = "null"

\* Two registered parsers accept, neither of them GoParser, and the earlier
\* one is returned
C13_Witness ==
    /\ op = "detectParser"
    /\ ~arg.goAccepts
    /\ \E i, j \in 1..Len(parsers) :
          /\ i < j
          /\ Accepts(i)
          /\ Accepts(j)
          /\ \A k \in 1..(i - 1) : ~Accepts(k)
          /\ ret.v = Parser(parsers[i])

\* C14: the registry holds a parser for each of the seven formats: getParser
\* returns a parser tagged with the token for each of them and fails with an
\* unsupported-format error for every other token.  Refuted for "codecov":
\* the registry holds six parsers and CodecovParser is not among them.
C14_SevenFormats ==
    op = "getParser" =>
        IF arg.v \in {"clover", "cobertura", "jacoco", "lcov", "istanbul", "go", "codecov"}
        THEN ret.v = Parser(arg.v)
        ELSE ret.v.kind = "error" /\ ret.v.message = "Unsupported coverage format: "

\* C15: detection is mutually exclusive: for every content and every
\* optional path hint at most one parser's canParse returns true.  Refuted,
\* for one, by a Cobertura document under the path clover.xml, which
\* CloverParser accepts for the path and CoberturaParser for the content.
C15_MutuallyExclusive ==
    op = "canParse" => Cardinality(ret.v) <= 1

-----------------------------------------------------------------------------
(* Malformed content: the failure paths of each parser's parseContent       *)

\* A document as parseContent receives it: the format it is written in,
\* what is wrong with it ("none": nothing) and the rest of its body.
\*   unparsable : text that the XML or JSON parser rejects
\*   noRoot     : no <coverage> (Cobertura, Clover), no <report> (JaCoCo),
\*                no "coverage" key (Codecov)
\*   noProject  : a Clover <coverage> without <project>
\*   noMetrics  : a Clover <project> without <metrics>
\*   noPath     : an Istanbul entry that is an object without "path"
Document(format, defect, body) == [format |-> format, defect |-> defect, body |-> body]

\* What parseContent gives: the results, or a rejection with an error of a
\* class (name) and a message (label ": " detail; no label: detail alone)
Parsed(results) ==
    [kind |-> "results", results |-> results, name |-> "", label |-> "", detail |-> ""]
ParseError(name, label, detail) ==
    [kind |-> "error", results |-> EmptyResults, name |-> name, label |-> label,
     detail |-> detail]

\* await parseStringPromise(content, ...) on text that is not XML: the
\* promise rejects with the error of the XML library, which no parser catches
XmlRejected == ParseError("Error", "", "xml2js")

\* Reading a property of undefined
TypeErrorReading(property) == ParseError("TypeError", "", property)

\* CoberturaParser.parseContent
CoberturaParseDocument(d) ==
    IF d.defect = "unparsable" THEN XmlRejected
    ELSE IF d.defect = "noRoot"
    THEN ParseError("Error", "Invalid Cobertura XML", "missing coverage element")
    ELSE Parsed(CoberturaParseContent(d.body))

\* CloverParser.parseContent; parseMetrics(project.metrics) reads
\* metricsAttrs.statements first
CloverParseDocument(d) ==
    IF d.defect = "unparsable" THEN XmlRejected
    ELSE IF d.defect = "noRoot"
    THEN ParseError("Error", "Invalid Clover XML", "missing coverage element")
    ELSE IF d.defect = "noProject"
    THEN ParseError("Error", "Invalid Clover XML", "missing project element")
    ELSE IF d.defect = "noMetrics"
    THEN TypeErrorReading("statements")
    ELSE Parsed(CloverParseContent(d.body))

\* JaCoCoParser.parseContent
JacocoParseDocument(d) ==
    IF d.defect = "unparsable" THEN XmlRejected
    ELSE IF d.defect = "noRoot"
    THEN ParseError("Error", "Invalid JaCoCo XML", "missing report element")
    ELSE Parsed(JacocoParseContent(d.body))

\* IstanbulParser.parseContent; parseFileCoverage calls
\* fileCoverage.path.split("/") on every entry
IstanbulParseDocument(d) ==
    IF d.defect = "unparsable"
    THEN ParseError("Error", "Invalid Istanbul JSON", "parse error")
    ELSE IF d.defect = "noPath"
    THEN TypeErrorReading("split")
    ELSE Parsed(IstanbulParseContent(d.body))

\* CodecovParser.parseContent
CodecovParseDocument(d) ==
    IF d.defect = "unparsable"
    THEN ParseError("Error", "Invalid Codecov JSON", "parse error")
    ELSE IF d.defect = "noRoot"
    THEN ParseError("Error", "Invalid Codecov JSON", "missing 'coverage' key")
    ELSE Parsed(CodecovParseContent(d.body))

\* parser.parseContent(content) of the parser of the document's format
parseContent(d) ==
    CASE d.format = "cobertura" -> CoberturaParseDocument(d)
      [] d.format = "clover" -> CloverParseDocument(d)
      [] d.format = "jacoco" -> JacocoParseDocument(d)
      [] d.format = "istanbul" -> IstanbulParseDocument(d)
      [] d.format = "codecov" -> CodecovParseDocument(d)

-----------------------------------------------------------------------------
(* State machine: parseContent on one document, well-formed or not          *)

Defects(format) ==
    CASE format = "cobertura" -> {"none", "unparsable", "noRoot"}
      [] format = "clover" -> {"none", "unparsable", "noRoot", "noProject", "noMetrics"}
      [] format = "jacoco" -> {"none", "unparsable", "noRoot"}
      [] format = "istanbul" -> {"none", "unparsable", "noPath"}
      [] format = "codecov" -> {"none", "unparsable", "noRoot"}

Bodies(format) ==
    CASE format = "cobertura" -> CoberturaContents
      [] format = "clover" -> CloverContents
      [] format = "jacoco" -> JacocoContents
      [] format = "istanbul" -> IstanbulContents
      [] format = "codecov" -> CodecovContents

InitMalformed ==
    /\ op = "init"
    /\ InitCoverageVars
    /\ \E format \in {"cobertura", "clover", "jacoco", "istanbul", "codecov"} :
          \E defect \in Defects(format), body \in Bodies(format) :
             arg = [present |-> TRUE, v |-> Document(format, defect, body)]
    /\ ret = None
    /\ coverageConfig = None
    /\ coverageChecksFailed = FALSE
    /\ failed = None
    /\ remainingFiles = <<>>
    /\ effects = <<>>

\* await parser.parseContent(content)
ParseContent ==
    /\ op = "init"
    /\ ret' = [present |-> TRUE, v |-> parseContent(arg.v)]
    /\ op' = "parseContent"
    /\ UNCHANGED <<arg, coverageVars, runVars>>

NextMalformed == ParseContent

SpecMalformed == InitMalformed /\ [][NextMalformed]_vars

-----------------------------------------------------------------------------
(* Claims about malformed content                                           *)

\* The label with which the messages of a format's parse errors start
FormatLabels(format) ==
    CASE format = "cobertura" -> {"Invalid Cobertura XML"}
      [] format = "clover" -> {"Invalid Clover XML"}
      [] format = "jacoco" -> {"Invalid JaCoCo XML"}
      [] format = "istanbul" -> {"Invalid Istanbul JSON"}
      [] format = "codecov" -> {"Invalid Codecov JSON"}

\* C16: for every parser, parseContent on malformed content (text that
\* cannot be parsed, or a document without a required element) fails with an
\* error whose message names the format, and neither returns results nor
\* fails with a generic error.  Refuted: a Clover <project> without <metrics>
\* and an Istanbul entry without a path fail with a TypeError, and text that
\* is not XML fails with the XML library's own error.
C16_MalformedFailsByFormat ==
    (op = "parseContent" /\ arg.v.defect # "none") =>
        /\ ret.v.kind = "error"
        /\ ret.v.name = "Error"
        /\ ret.v.label \in FormatLabels(arg.v.format)

-----------------------------------------------------------------------------
(* Configuration values: ConfigLoader.parseThreshold                        *)

MaxChars == 4

\* Values a configuration key can hold after YAML parsing.  A number is
\* mantissa / 10^scale with no trailing zero in the fraction; NaN is a number
\* of its own.  A string is the sequence of its characters.
JsNull == [type |-> "null", mantissa |-> 0, scale |-> 0, chars |-> <<>>]
JsUndefined == [type |-> "undefined", mantissa |-> 0, scale |-> 0, chars |-> <<>>]
JsNaN == [type |-> "number", mantissa |-> 0, scale |-> -1, chars |-> <<>>]
JsOther(type) == [type |-> type, mantissa |-> 0, scale |-> 0, chars |-> <<>>]
JsString(chars) == [type |-> "string", mantissa |-> 0, scale |-> 0, chars |-> chars]

RECURSIVE JsNumber(_, _)
JsNumber(mantissa, scale) ==
    IF scale > 0 /\ mantissa % 10 = 0
    THEN JsNumber(mantissa \div 10, scale - 1)
    ELSE [type |-> "number", mantissa |-> mantissa, scale |-> scale, chars |-> <<>>]

Digits == {"0", "1"}

DigitValue(ch) == IF ch = "1" THEN 1 ELSE 0

\* \d+
IsDigits(s) == Len(s) >= 1 /\ \A i \in 1..Len(s) : s[i] \in Digits

\* The integer a sequence of digits writes
RECURSIVE DigitsValue(_)
DigitsValue(s) ==
    IF s = <<>> THEN 0
    ELSE 10 * DigitsValue(SubSeq(s, 1, Len(s) - 1)) + DigitValue(s[Len(s)])

\* parseFloat of digits, or of digits "." digits
parseFloat(s) ==
    IF \E k \in 1..Len(s) : s[k] = "."
    THEN LET k == CHOOSE k \in 1..Len(s) : s[k] = "."
         IN  JsNumber(DigitsValue(SubSeq(s, 1, k - 1) \o SubSeq(s, k + 1, Len(s))),
                      Len(s) - k)
    ELSE JsNumber(DigitsValue(s), 0)

\* value.match(/^(\d+(?:\.\d+)?)%?$/): the first group (optional)
thresholdMatch(s) ==
    LET body == IF Len(s) >= 1 /\ s[Len(s)] = "%" THEN SubSeq(s, 1, Len(s) - 1) ELSE s
        ok == \/ IsDigits(body)
              \/ \E k \in 2..(Len(body) - 1) :
                    /\ body[k] = "."
                    /\ IsDigits(SubSeq(body, 1, k - 1))
                    /\ IsDigits(SubSeq(body, k + 1, Len(body)))
    IN  IF ok THEN [present |-> TRUE, v |-> body] ELSE None

\* ConfigLoader.parseThreshold
parseThreshold(value) ==
    IF value.type = "null" \/ value.type = "undefined" THEN JsNull
    ELSE IF value.type = "number" THEN value
    ELSE IF value.type = "string"
    THEN LET match == thresholdMatch(value.chars)
         IN  IF match.present THEN parseFloat(match.v) ELSE JsNull
    ELSE JsNull

-----------------------------------------------------------------------------
(* State machine: parseThreshold on one value                               *)

Characters == Digits \cup {".", "%", "-", "a"}

Strings == UNION {[1..n -> Characters] : n \in 0..MaxChars}

ThresholdValues ==
    {JsNull, JsUndefined, JsNaN, JsOther("boolean"), JsOther("object")}
    \cup {JsNumber(m, s) : m \in (0 - 11)..11, s \in 0..1}
    \cup {JsString(s) : s \in Strings}

InitParseThreshold ==
    /\ op = "init"
    /\ InitCoverageVars
    /\ arg \in {[present |-> TRUE, v |-> value] : value \in ThresholdValues}
    /\ ret = None
    /\ coverageConfig = None
    /\ coverageChecksFailed = FALSE
    /\ failed = None
    /\ remainingFiles = <<>>
    /\ effects = <<>>

\* this.parseThreshold(project.threshold)
ParseThreshold ==
    /\ op = "init"
    /\ ret' = [present |-> TRUE, v |-> parseThreshold(arg.v)]
    /\ op' = "parseThreshold"
    /\ UNCHANGED <<arg, coverageVars, runVars>>

NextParseThreshold == ParseThreshold

SpecParseThreshold == InitParseThreshold /\ [][NextParseThreshold]_vars

-----------------------------------------------------------------------------
(* Claims about parseThreshold                                              *)

\* The strings digits[.digits][%] with the number each writes
ThresholdForms ==
    LET ds == {s \in Strings : IsDigits(s)}
        plain == {<<a, JsNumber(DigitsValue(a), 0)>> : a \in ds}
        fraction == {<<ab[1] \o <<".">> \o ab[2],
                       JsNumber(DigitsValue(ab[1] \o ab[2]), Len(ab[2]))>> :
                       ab \in {p \in ds \X ds : Len(p[1]) + Len(p[2]) < MaxChars}}
        bare == plain \cup fraction
    IN  bare \cup {<<f[1] \o <<"%">>, f[2]>> : f \in {g \in bare : Len(g[1]) < MaxChars}}

\* A number that is not negative (NaN is not)
IsNonNegativeNumber(x) == x.type = "number" /\ x.scale >= 0 /\ x.mantissa >= 0

\* C17: parseThreshold returns the number itself for a number, the numeric
\* part for a string digits[.digits] with an optional trailing percent sign,
\* and null for every other value; so the threshold it gives is a number that
\* is not negative, or null.  Refuted by the last part: a negative number and
\* NaN are returned as they are.
C17_ParseThreshold ==
    op = "parseThreshold" =>
        /\ arg.v.type = "number" => ret.v = arg.v
        /\ arg.v.type = "string" =>
              IF \E f \in ThresholdForms : f[1] = arg.v.chars
              THEN \E f \in ThresholdForms : f[1] = arg.v.chars /\ ret.v = f[2]
              ELSE ret.v = JsNull
        /\ arg.v.type \notin {"number", "string"} => ret.v = JsNull
        /\ ret.v = JsNull \/ IsNonNegativeNumber(ret.v)

-----------------------------------------------------------------------------
(* Configuration layering: normalizeConfig, getCoverageConfig and the       *)
(* status section of run                                                    *)

\* A percentage as the checker compares it: in hundredths of a percent
ToRate(x) == (x.mantissa * 100) \div (10 ^ x.scale)

Auto == <<"a", "u", "t", "o">>

\* A configuration file as yaml.load gives it, as far as normalizeConfig
\* reads the status section (after extractStatusConfig); a key that is not
\* written is undefined
RawStatus(target, threshold, informational) ==
    [target |-> target, threshold |-> threshold, informational |-> informational]
RawConfig(project, patch) == [project |-> project, patch |-> patch]

\* config = {}: no configuration file
EmptyConfig ==
    RawConfig(RawStatus(JsUndefined, JsUndefined, None),
              RawStatus(JsUndefined, JsUndefined, None))

\* normalizeConfig: project.target ?? "auto"
normalizeProjectTarget(target) ==
    IF target.type = "undefined" \/ target.type = "null" THEN AutoTarget
    ELSE IF target.type = "number" THEN NumberTarget(ToRate(target))
    ELSE IF target = JsString(Auto) THEN AutoTarget
    ELSE OtherTarget

\* normalizeConfig: typeof patch.target === "number" ? patch.target : 80
normalizePatchTarget(target) ==
    IF target.type = "number" THEN NumberTarget(ToRate(target))
    ELSE NumberTarget(DefaultPatchTarget)

\* normalizeConfig: this.parseThreshold(project.threshold)
normalizeThreshold(threshold) ==
    LET parsedThreshold == parseThreshold(threshold)
    IN  IF parsedThreshold.type = "number"
        THEN NumberThreshold(ToRate(parsedThreshold))
        ELSE NullThreshold

\* a ?? b on an optional boolean
OrElse(a, b) == IF a.present THEN a.v ELSE b

\* ConfigLoader.normalizeConfig: the status section
normalizeConfig(config) ==
    [project |-> StatusConfig(normalizeProjectTarget(config.project.target),
                              normalizeThreshold(config.project.threshold),
                              OrElse(config.project.informational, FALSE)),
     patch |-> StatusConfig(normalizePatchTarget(config.patch.target),
                            normalizeThreshold(config.patch.threshold),
                            OrElse(config.patch.informational, FALSE))]

\* Number(input) of a non-empty input
ToNumber(chars) == IF IsDigits(chars) THEN JsNumber(DigitsValue(chars), 0) ELSE JsNaN

\* getCoverageConfig: targetProject (undefined unless the input is given)
targetProjectOf(input) ==
    IF input = <<>> THEN None
    ELSE IF input = Auto THEN [present |-> TRUE, v |-> AutoTarget]
    ELSE [present |-> TRUE, v |-> NumberTarget(ToRate(ToNumber(input)))]

\* getCoverageConfig: thresholdProject
thresholdProjectOf(input) ==
    IF input = <<>> THEN None
    ELSE [present |-> TRUE, v |-> NumberThreshold(ToRate(ToNumber(input)))]

\* getCoverageConfig: targetPatch
targetPatchOf(input) ==
    IF input = <<>> THEN None
    ELSE [present |-> TRUE, v |-> NumberTarget(ToRate(ToNumber(input)))]

\* getCoverageConfig, as far as run's status section reads its result
getCoverageConfig(inputs, config) ==
    [status |-> normalizeConfig(config),
     failOnError |-> inputs.failOnError,
     targetProject |-> targetProjectOf(inputs.targetProject),
     thresholdProject |-> thresholdProjectOf(inputs.thresholdProject),
     targetPatch |-> targetPatchOf(inputs.targetPatch)]

\* Mutant: a ?? b read as a || b (0 falls through)
CoalesceFalsy(a, b) ==
    IF a.present /\ ~(a.v.kind = "number" /\ a.v.value = 0) THEN a.v ELSE b

\* a ?? b where a is undefined or a value
Coalesce(a, b) == IF a.present THEN a.v ELSE b

\* run: projectConfig (coverageConfig.status is always set)
projectConfigOf(cfg) ==
    StatusConfig(Coalesce(cfg.targetProject, cfg.status.project.target),
                 Coalesce(cfg.thresholdProject, cfg.status.project.threshold),
                 cfg.status.project.informational)

\* run: patchConfig
patchConfigOf(cfg) ==
    StatusConfig(Coalesce(cfg.targetPatch, cfg.status.patch.target),
                 cfg.status.patch.threshold,
                 cfg.status.patch.informational)

\* Mutant: every failed check counts
failsChecksAlways(status) == status.status = "failure"

\* run: a failed check that is not informational fails the coverage checks
failsChecks(status) == status.status = "failure" /\ ~status.informational

ThresholdsNotMet == "Coverage thresholds were not met."

-----------------------------------------------------------------------------
(* State machine: run, from getCoverageConfig to its last statement, on     *)
(* the results that processCoverage and the patch analysis hand it          *)

InputTexts == {<<>>, <<"0">>, <<"1", "0", "0">>}

RunInputs ==
    [targetProject : InputTexts \cup {Auto},
     thresholdProject : {<<>>, <<"0">>, <<"1", "0">>},
     targetPatch : InputTexts,
     failOnError : BOOLEAN]

\* Configuration files: none, or a status section with any of its keys
FileConfigs ==
    {None}
    \cup {Some(RawConfig(RawStatus(pt, th, pi), RawStatus(qt, JsUndefined, qi))) :
            pt \in {JsUndefined, JsString(Auto), JsNumber(75, 0)},
            th \in {JsUndefined, JsString(<<"1", "0", "%">>)},
            pi \in {None, Some(TRUE)},
            qt \in {JsUndefined, JsString(Auto), JsNumber(0, 0), JsNumber(100, 0)},
            qi \in {None, Some(TRUE)}}

\* What processCoverage returned (null: no results), with the comparison to
\* the base branch when there is one
RunAggregated ==
    {r \in AggregatedInputs :
        /\ r.coveredStatements \in {MaxSteps \div 2, MaxSteps}
        /\ r.comparison.present =>
              r.comparison.v.deltaLineRate
                  \in {0 - calculateRate(1, MaxSteps), calculateRate(1, MaxSteps)}}

\* The patch coverage: null outside a pull request
RunPatches == {None, Some(PatchOf(0, 0)), Some(PatchOf(1, 2)), Some(PatchOf(1, 1))}

InitRun ==
    /\ op = "init"
    /\ content = <<>>
    /\ parsed = EmptyResults
    /\ allResults = <<>>
    /\ diffFiles = <<>>
    /\ projectConfig = NoConfig
    /\ patchConfig = NoConfig
    /\ projectStatus = None
    /\ patchStatus = None
    /\ arg \in {[present |-> TRUE, v |-> a] :
                  a \in [inputs : RunInputs, file : FileConfigs, coverage : BOOLEAN]}
    /\ IF arg.v.coverage
       THEN aggregated \in RunAggregated /\ patchCoverage \in RunPatches
       ELSE aggregated = EmptyAggregated /\ patchCoverage = None
    /\ ret = None
    /\ coverageConfig = None
    /\ coverageChecksFailed = FALSE
    /\ failed = None
    /\ remainingFiles = <<>>
    /\ effects = <<>>

\* statusReporter.reportStatus(context, ...): the commit status of that
\* context joins what has been published
reportStatusDropped(published, context) == published

reportStatus(published, context) == Append(published, context)

TokenRequired == "GitHub token is required. Please provide 'token' input."

\* The errors processTestResults and processCoverage throw
ProcessingErrors ==
    {"No valid JUnit XML files found", "Failed to parse any JUnit XML files",
     "No coverage files found", "No valid coverage files found",
     "Failed to parse any coverage files"}

\* run: const coverageConfig = await getCoverageConfig()
RunGetCoverageConfig ==
    /\ op = "init"
    /\ coverageConfig' =
          [present |-> TRUE,
           v |-> getCoverageConfig(arg.v.inputs,
                                   IF arg.v.file.present THEN arg.v.file.v
                                   ELSE EmptyConfig)]
    /\ op' = "getCoverageConfig"
    /\ UNCHANGED <<arg, ret, coverageChecksFailed, failed, coverageVars,
                   remainingFiles, effects>>

\* run: the project check, its report as codecov/project and its effect on
\* coverageChecksFailed
RunProjectCheck ==
    /\ op = "getCoverageConfig"
    /\ arg.v.coverage
    /\ projectConfig' = projectConfigOf(coverageConfig.v)
    /\ projectStatus' = [present |-> TRUE,
                         v |-> checkProjectStatus(aggregated, projectConfig')]
    /\ coverageChecksFailed' = (coverageChecksFailed \/ failsChecks(projectStatus'.v))
    /\ effects' = reportStatus(effects, "codecov/project")
    /\ op' = "projectStatus"
    /\ UNCHANGED <<arg, ret, coverageConfig, failed, remainingFiles,
                   content, parsed, allResults,
                   aggregated, diffFiles, patchCoverage, patchConfig, patchStatus>>

\* run: the patch check, its report as codecov/patch and its effect on
\* coverageChecksFailed
RunPatchCheck ==
    /\ op = "projectStatus"
    /\ patchConfig' = patchConfigOf(coverageConfig.v)
    /\ patchStatus' = [present |-> TRUE,
                       v |-> checkPatchStatus(patchCoverage, patchConfig')]
    /\ coverageChecksFailed' = (coverageChecksFailed \/ failsChecks(patchStatus'.v))
    /\ effects' = reportStatus(effects, "codecov/patch")
    /\ op' = "patchStatus"
    /\ UNCHANGED <<arg, ret, coverageConfig, failed, remainingFiles,
                   content, parsed, allResults,
                   aggregated, diffFiles, patchCoverage, projectConfig, projectStatus>>

\* run: if (!token) throw ..., caught by the catch block, which calls
\* core.setFailed(`Action failed: ${message}`)
RunTokenMissing ==
    /\ op = "getCoverageConfig"
    /\ failed' = [present |-> TRUE, v |-> <<"Action failed: ", TokenRequired>>]
    /\ op' = "catch"
    /\ UNCHANGED <<arg, ret, coverageConfig, coverageChecksFailed, coverageVars,
                   remainingFiles, effects>>

\* run: processTestResults or processCoverage throws, caught by the catch
\* block
RunProcessingThrows ==
    /\ op = "getCoverageConfig"
    /\ \E message \in ProcessingErrors :
          failed' = [present |-> TRUE, v |-> <<"Action failed: ", message>>]
    /\ op' = "catch"
    /\ UNCHANGED <<arg, ret, coverageConfig, coverageChecksFailed, coverageVars,
                   remainingFiles, effects>>

\* run: await core.summary.addRaw(summaryReportBody).write(), after the
\* checks, or at once when coverage is disabled or there are no results
RunWriteSummary ==
    /\ \/ op = "patchStatus"
       \/ op = "getCoverageConfig" /\ ~arg.v.coverage
    /\ effects' = Append(effects, "summary")
    /\ op' = "summary"
    /\ UNCHANGED <<arg, ret, coverageConfig, coverageChecksFailed, failed,
                   coverageVars, remainingFiles>>

\* run: if (shouldPostPrComment && githubClient.isPullRequest())
\* await githubClient.postOrUpdateComment(prCommentBody); the two conditions
\* are kept in ret.  There is a patch coverage in a pull request only.
RunPostComment ==
    /\ op = "summary"
    /\ \E shouldPostPrComment \in BOOLEAN, isPullRequest \in BOOLEAN :
          /\ patchCoverage.present => isPullRequest
          /\ ret' = [present |-> TRUE,
                     v |-> [shouldPostPrComment |-> shouldPostPrComment,
                            isPullRequest |-> isPullRequest]]
          /\ effects' = IF shouldPostPrComment /\ isPullRequest
                        THEN Append(effects, "comment") ELSE effects
    /\ op' = "comment"
    /\ UNCHANGED <<arg, coverageConfig, coverageChecksFailed, failed,
                   coverageVars, remainingFiles>>

\* run: the last statement, if (coverageChecksFailed &&
\* coverageConfig.failOnError) throw ..., and the catch block, which calls
\* core.setFailed(`Action failed: ${message}`)
RunFinish ==
    /\ op = "comment"
    /\ failed' = IF coverageChecksFailed /\ coverageConfig.v.failOnError
                 THEN [present |-> TRUE, v |-> <<"Action failed: ", ThresholdsNotMet>>]
                 ELSE None
    /\ op' = "done"
    /\ UNCHANGED <<arg, ret, coverageConfig, coverageChecksFailed, coverageVars,
                   remainingFiles, effects>>

NextRun ==
    \/ RunGetCoverageConfig
    \/ RunTokenMissing
    \/ RunProcessingThrows
    \/ RunProjectCheck
    \/ RunPatchCheck
    \/ RunWriteSummary
    \/ RunPostComment
    \/ RunFinish

SpecRun == InitRun /\ [][NextRun]_vars

-----------------------------------------------------------------------------
(* Claims about run                                                         *)

\* The percentage an input text writes, in hundredths of a percent
InputPercent(text) ==
    CASE text = <<"0">> -> 0
      [] text = <<"1", "0">> -> 1000
      [] text = <<"1", "0", "0">> -> 10000

\* The percentage a value of the configuration file writes
FilePercent(value) ==
    CASE value = JsNumber(0, 0) -> 0
      [] value = JsNumber(75, 0) -> 7500
      [] value = JsNumber(100, 0) -> 10000
      [] value = JsString(<<"1", "0", "%">>) -> 1000

ChecksRan == op \in {"patchStatus", "summary", "comment", "done"} /\ arg.v.coverage

\* C18: the project target, project threshold and patch target passed to
\* the ThresholdChecker are the action input when it is provided, otherwise
\* the value of the configuration file, otherwise "auto", null and 80; a
\* provided input overrides the file value also when it is 0.
C18_Layering ==
    ChecksRan =>
        LET in == arg.v.inputs
            file == arg.v.file
        IN  /\ projectConfig.target =
                  IF in.targetProject = Auto THEN AutoTarget
                  ELSE IF in.targetProject # <<>>
                  THEN NumberTarget(InputPercent(in.targetProject))
                  ELSE IF file.present /\ file.v.project.target.type = "number"
                  THEN NumberTarget(FilePercent(file.v.project.target))
                  ELSE AutoTarget
            /\ projectConfig.threshold =
                  IF in.thresholdProject # <<>>
                  THEN NumberThreshold(InputPercent(in.thresholdProject))
                  ELSE IF file.present /\ file.v.project.threshold.type # "undefined"
                  THEN NumberThreshold(FilePercent(file.v.project.threshold))
                  ELSE NullThreshold
            /\ patchConfig.target =
                  IF in.targetPatch # <<>>
                  THEN NumberTarget(InputPercent(in.targetPatch))
                  ELSE IF file.present /\ file.v.patch.target.type = "number"
                  THEN NumberTarget(FilePercent(file.v.patch.target))
                  ELSE NumberTarget(80 * 100)

\* The inputs 0 override the file's 75 and 100, and the file's threshold is
\* used where no input is given
C18_Witness ==
    /\ ChecksRan
    /\ arg.v.inputs.targetProject = <<"0">>
    /\ arg.v.inputs.targetPatch = <<"0">>
    /\ arg.v.inputs.thresholdProject = <<>>
    /\ arg.v.file.present
    /\ arg.v.file.v.project.target = JsNumber(75, 0)
    /\ arg.v.file.v.patch.target = JsNumber(100, 0)
    /\ projectConfig.target = NumberTarget(0)
    /\ projectConfig.threshold = NumberThreshold(1000)
    /\ patchConfig.target = NumberTarget(0)

\* C19: with no target-project, threshold-project or target-patch input and
\* no configuration file, neither codecov/project nor codecov/patch is
\* reported with status failure, whatever the results, the comparison and
\* the patch are.  Refuted: the defaults "auto" and 80 are enforced.
C19_NoThresholdsNoFailure ==
    (/\ arg.present
     /\ arg.v.inputs.targetProject = <<>>
     /\ arg.v.inputs.thresholdProject = <<>>
     /\ arg.v.inputs.targetPatch = <<>>
     /\ ~arg.v.file.present) =>
        /\ projectStatus.present => projectStatus.v.status # "failure"
        /\ patchStatus.present => patchStatus.v.status # "failure"

\* A check that returned failure with informational false
Blocking(status) ==
    status.present /\ status.v.status = "failure" /\ status.v.informational = FALSE

RunEnded == op \in {"done", "catch"}

\* C21: every execution of run writes the job summary, also when the token
\* is missing or when test or coverage processing throws.  Refuted: those
\* errors are thrown before the summary is written and the catch block
\* only calls core.setFailed.
C21_SummaryAlways ==
    RunEnded => \E i \in 1..Len(effects) : effects[i] = "summary"

ThresholdFailure == failed.present /\ failed.v[2] = ThresholdsNotMet

\* C29: when run raises "Coverage thresholds were not met.", codecov/project
\* and codecov/patch have been reported, the job summary has been written
\* and, when enabled in a pull request, the PR comment has been posted, in
\* this order.
C29_PublishedBeforeFailure ==
    ThresholdFailure =>
        effects = <<"codecov/project", "codecov/patch", "summary">>
                  \o (IF ret.v.shouldPostPrComment /\ ret.v.isPullRequest
                      THEN <<"comment">> ELSE <<>>)

\* The thresholds failed a run in a pull request that posted its comment
C29_Witness ==
    /\ op = "done"
    /\ ThresholdFailure
    /\ Blocking(patchStatus)
    /\ patchCoverage.present
    /\ ret.v.shouldPostPrComment
    /\ effects[4] = "comment"

-----------------------------------------------------------------------------
(* Claims about detectFormatFromPath                                        *)

\* The file name of a path: its pieces after the last "/"
FileName(filePath) ==
    LET slashes == {i \in 1..Len(filePath) : filePath[i] = "/"}
    IN  IF slashes = {} THEN filePath
        ELSE SubSeq(filePath, (CHOOSE i \in slashes : \A j \in slashes : j <= i) + 1,
                    Len(filePath))

\* C25: detectFormatFromPath is a lookup on the path: a path ending in
\* lcov.info gives lcov, one ending in .out or .coverprofile gives go, one
\* ending in jacoco.xml gives jacoco, one whose file name is codecov.json
\* gives codecov, and a path that matches no entry gives null.  Refuted:
\* codecov.json and test.out give null, jacoco/lcov.info gives jacoco.
C25_PathLookup ==
    op = "detectFormatFromPath" =>
        LET filePath == arg.filePath.v
        IN  /\ EndsWith(filePath, <<"lcov", ".", "info">>) => ret.v = Some("lcov")
            /\ (EndsWith(filePath, <<".", "out">>)
                  \/ EndsWith(filePath, <<".", "coverprofile">>)) => ret.v = Some("go")
            /\ EndsWith(filePath, <<"jacoco", ".", "xml">>) => ret.v = Some("jacoco")
            /\ FileName(filePath) = <<"codecov", ".", "json">> => ret.v = Some("codecov")
            /\ filePath \in {<<>>, <<"report", ".", "txt">>, <<"coverage", ".", "json">>}
                  => ret.v = None

-----------------------------------------------------------------------------
(* Claims about the counters of the parsers' files                          *)

\* The directives of a record with a tag
WithTag(record, tag) == {i \in 1..Len(record) : record[i].tag = tag}

\* The value of the summary directive tag of a record, 0 when there is none
SummaryValue(record, tag) ==
    IF WithTag(record, tag) = {} THEN 0
    ELSE record[CHOOSE i \in WithTag(record, tag) : TRUE].a

\* C26: for each LCOV record, statements/coveredStatements are the LF/LH
\* values whenever the record has an LF directive (LF:0 included) and
\* otherwise the number of distinct DA lines and of those with hits > 0;
\* conditionals/coveredConditionals are BRF/BRH whenever BRF is present and
\* otherwise the number of BRDA entries and of those with taken > 0 ("-"
\* counting as 0).  Refuted by a record with LF:0 and DA lines, whose
\* statements are counted from the DA lines.
C26_LcovCounters ==
    (op = "lcov" /\ WithTag(content[1], "SF") # {}) =>
        LET record == content[1]
            file == parsed.files[1]
            da == WithTag(record, "DA")
            brda == WithTag(record, "BRDA")
        IN  /\ IF WithTag(record, "LF") # {}
               THEN /\ file.statements = SummaryValue(record, "LF")
                    /\ file.coveredStatements = SummaryValue(record, "LH")
               ELSE /\ file.statements = Cardinality({record[i].a : i \in da})
                    /\ file.coveredStatements =
                          Cardinality({record[i].a : i \in {j \in da : record[j].b > 0}})
            /\ IF WithTag(record, "BRF") # {}
               THEN /\ file.conditionals = SummaryValue(record, "BRF")
                    /\ file.coveredConditionals = SummaryValue(record, "BRH")
               ELSE /\ file.conditionals = Cardinality(brda)
                    /\ file.coveredConditionals =
                          Cardinality({i \in brda : ~record[i].dash /\ record[i].b > 0})

\* The sum of f[x] over the elements x of a finite set of integers
SumOver(S, f) == SeqSum([i \in 1..Cardinality(S) |-> f[SortedSeq(S)[i]]])

\* C27: for a Codecov file entry, a null line counts nowhere and gives no
\* line entry; a number line is one statement, covered iff the number is
\* > 0; a branch line "c/t" is one statement, covered iff c > 0, and adds t
\* to conditionals and c to coveredConditionals; missingLines is the sorted
\* set of counted lines with zero hits, partialLines the sorted set of branch
\* lines with 0 < c < t, the two are disjoint, and methods and
\* coveredMethods are 0.
C27_CodecovLines ==
    (op = "codecov" /\ content # <<>>) =>
        LET value == content[1].lines
            file == parsed.files[1]
            numbers == {n \in DOMAIN value : value[n].kind = "number"}
            branches == {n \in DOMAIN value : value[n].kind = "branch"}
            hit == {n \in numbers : value[n].n > 0}
                   \cup {n \in branches : value[n].covered > 0}
            partial == {n \in branches :
                          0 < value[n].covered /\ value[n].covered < value[n].total}
        IN  /\ {file.lines[i].lineNumber : i \in 1..Len(file.lines)} = numbers \cup branches
            /\ Len(file.lines) = Cardinality(numbers \cup branches)
            /\ file.statements = Cardinality(numbers \cup branches)
            /\ file.coveredStatements = Cardinality(hit)
            /\ file.conditionals = SumOver(branches, [n \in branches |-> value[n].total])
            /\ file.coveredConditionals =
                  SumOver(branches, [n \in branches |-> value[n].covered])
            /\ file.missingLines = Some(SortedSeq((numbers \cup branches) \ hit))
            /\ file.partialLines = Some(SortedSeq(partial))
            /\ ((numbers \cup branches) \ hit) \cap partial = {}
            /\ file.methods = 0
            /\ file.coveredMethods = 0

\* A file with a null line and a partially covered branch line
C27_Witness ==
    /\ op = "codecov"
    /\ content # <<>>
    /\ \E n \in DOMAIN content[1].lines : content[1].lines[n].kind = "null"
    /\ parsed.files[1].partialLines.v # <<>>
    /\ parsed.files[1].statements = 1

\* The classes of a Cobertura document, in document order
ClassesOf(coverage) == Flatten(coverage.packages)

\* C28: in the Cobertura parser every <line> of a class is one statement,
\* covered iff hits > 0; a line with branch="true" adds t and c when its
\* condition-coverage holds "(c/t)", adds 2 and (1 iff hits > 0) when it has
\* no condition-coverage, and adds nothing when the string has no "(c/t)"
\* part; a line without the branch flag adds nothing to conditionals.
C28_CoberturaLines ==
    (op = "cobertura" /\ ClassesOf(content) # <<>>) =>
        LET line == ClassesOf(content)[1].lines
            file == parsed.files[1]
            all == 1..Len(line)
            total == [i \in all |->
                        IF ~line[i].branch THEN 0
                        ELSE IF line[i].cc = "match" THEN line[i].total
                        ELSE IF line[i].cc = "absent" THEN 2
                        ELSE 0]
            covered == [i \in all |->
                          IF ~line[i].branch THEN 0
                          ELSE IF line[i].cc = "match" THEN line[i].covered
                          ELSE IF line[i].cc = "absent" /\ line[i].hits > 0 THEN 1
                          ELSE 0]
        IN  /\ file.statements = Len(line)
            /\ file.coveredStatements = Cardinality({i \in all : line[i].hits > 0})
            /\ file.conditionals = SumOver(all, total)
            /\ file.coveredConditionals = SumOver(all, covered)

\* A class with a hit branch line without condition-coverage and a branch
\* line whose condition-coverage has no "(c/t)" part
C28_Witness ==
    /\ op = "cobertura"
    /\ ClassesOf(content) # <<>>
    /\ \E i, j \in 1..Len(ClassesOf(content)[1].lines) :
          /\ ClassesOf(content)[1].lines[i].branch
          /\ ClassesOf(content)[1].lines[i].cc = "absent"
          /\ ClassesOf(content)[1].lines[i].hits > 0
          /\ ClassesOf(content)[1].lines[j].branch
          /\ ClassesOf(content)[1].lines[j].cc = "nomatch"
    /\ parsed.files[1].conditionals = 2
    /\ parsed.files[1].coveredConditionals = 1

-----------------------------------------------------------------------------
(* Claims about files that share a path                                     *)

\* The files of the aggregated results with a path
FilesWithPath(path) ==
    {f \in 1..Len(aggregated.files) : aggregated.files[f].path = path}

\* File f has a line entry for lineNumber, and the first such entry
\* satisfies hit
FirstEntry(f, lineNumber, hit(_)) ==
    \E i \in 1..Len(aggregated.files[f].lines) :
       /\ aggregated.files[f].lines[i].lineNumber = lineNumber
       /\ \A j \in 1..(i - 1) : aggregated.files[f].lines[j].lineNumber # lineNumber
       /\ hit(aggregated.files[f].lines[i].count)

\* C30: when several files of the aggregated coverage carry the same path,
\* analyzePatchCoverage matches a diff entry for that path against the last
\* of them only: every line the breakdown reports as covered or missed for
\* the path is reported from the line entries of the last file, and a line
\* that only an earlier file with the path has is reported nowhere.
C30_LastFileWins ==
    op = "analyzePatchCoverage" =>
        \A b \in 1..Len(patchCoverage.v.fileBreakdown) :
           LET entry == patchCoverage.v.fileBreakdown[b]
               last == CHOOSE f \in FilesWithPath(entry.path) :
                          \A g \in FilesWithPath(entry.path) : g <= f
           IN  /\ FilesWithPath(entry.path) # {}
               /\ \A i \in 1..Len(entry.coveredLines) :
                     FirstEntry(last, entry.coveredLines[i], IsCovered)
               /\ \A i \in 1..Len(entry.missedLines) :
                     FirstEntry(last, entry.missedLines[i], IsMissed)

\* Two files carry the path of a diff entry; an added line is covered in the
\* first and missed in the last, and the patch reports it as missed
C30_Witness ==
    /\ op = "analyzePatchCoverage"
    /\ Len(aggregated.files) = 2
    /\ aggregated.files[1].path = aggregated.files[2].path
    /\ Len(diffFiles) = 1
    /\ diffFiles[1].to = aggregated.files[1].path
    /\ \E k \in 1..Len(ChangesOf(1)) :
          /\ ChangesOf(1)[k].type = "add"
          /\ FirstEntry(1, ChangesOf(1)[k].ln, IsCovered)
          /\ FirstEntry(2, ChangesOf(1)[k].ln, IsMissed)
    /\ patchCoverage.v.coveredLines = 0
    /\ patchCoverage.v.missedLines = 1

-----------------------------------------------------------------------------
(* Test results: JUnitParser.aggregateResults and TestResultsComparator     *)

MaxTests == 3

\* The test cases of a suite with a failure, in suite order
RECURSIVE FailedOf(_, _)
FailedOf(suiteName, testcases) ==
    IF testcases = <<>> THEN <<>>
    ELSE (IF Head(testcases).failure
          THEN <<[suiteName |-> suiteName, testCase |-> Head(testcases)]>>
          ELSE <<>>) \o FailedOf(suiteName, Tail(testcases))

\* JUnitParser.aggregateResults, over the one suite of one result
JUnitAggregateResults(suite) ==
    LET totalTests == suite.tests
        failedTests == suite.failures + suite.errors
        skippedTests == suite.skipped
    IN  [totalTests |-> totalTests,
         passedTests |-> totalTests - failedTests - skippedTests,
         failedTests |-> failedTests,
         skippedTests |-> skippedTests,
         failedTestCases |-> FailedOf(suite.name, suite.testcases)]

\* TestResultsComparator.generateTestKey
generateTestKey(suiteName, classname, testName) == <<suiteName, classname, testName>>

\* TestResultsComparator.buildTestMap: a map held as the sequence of its
\* entries in insertion order; only the failed test cases are entered
RECURSIVE buildTestMap(_)
buildTestMap(failedTestCases) ==
    IF failedTestCases = <<>> THEN <<>>
    ELSE LET rest == buildTestMap(SubSeq(failedTestCases, 1, Len(failedTestCases) - 1))
             last == failedTestCases[Len(failedTestCases)]
             key == generateTestKey(last.suiteName, last.testCase.classname,
                                    last.testCase.name)
             entry == [key |-> key, testCase |-> last.testCase, isPassing |-> FALSE]
         IN  IF \E i \in 1..Len(rest) : rest[i].key = key
             THEN [i \in 1..Len(rest) |-> IF rest[i].key = key THEN entry ELSE rest[i]]
             ELSE Append(rest, entry)

\* testMap.get(key): the index of the entry, 0 for undefined
TestMapGet(testMap, key) ==
    IF \E i \in 1..Len(testMap) : testMap[i].key = key
    THEN CHOOSE i \in 1..Len(testMap) : testMap[i].key = key
    ELSE 0

\* TestResultsComparator.compareResults: the four lists hold test keys
compareResults(baseResults, currentResults) ==
    LET baseTestMap == buildTestMap(baseResults.failedTestCases)
        currentTestMap == buildTestMap(currentResults.failedTestCases)
        baseKeys == [i \in 1..Len(baseTestMap) |-> baseTestMap[i].key]
        currentKeys == [i \in 1..Len(currentTestMap) |-> currentTestMap[i].key]
        isNew(key) == TestMapGet(baseTestMap, key) = 0
        allTestKeys == baseKeys \o SelectSeq(currentKeys, isNew)
        base(key) == TestMapGet(baseTestMap, key)
        current(key) == TestMapGet(currentTestMap, key)
        added(key) == base(key) = 0 /\ current(key) # 0
                      /\ ~currentTestMap[current(key)].isPassing
        removed(key) == base(key) # 0 /\ current(key) = 0
                        /\ ~baseTestMap[base(key)].isPassing
        broken(key) == base(key) # 0 /\ current(key) # 0
                       /\ baseTestMap[base(key)].isPassing
                       /\ ~currentTestMap[current(key)].isPassing
        fixed(key) == base(key) # 0 /\ current(key) # 0
                      /\ ~(baseTestMap[base(key)].isPassing
                           /\ ~currentTestMap[current(key)].isPassing)
                      /\ ~baseTestMap[base(key)].isPassing
                      /\ currentTestMap[current(key)].isPassing
    IN  [testsAdded |-> SelectSeq(allTestKeys, added),
         testsRemoved |-> SelectSeq(allTestKeys, removed),
         testsBroken |-> SelectSeq(allTestKeys, broken),
         testsFixed |-> SelectSeq(allTestKeys, fixed),
         deltaTotal |-> currentResults.totalTests - baseResults.totalTests,
         deltaPassed |-> currentResults.passedTests - baseResults.passedTests,
         deltaFailed |-> currentResults.failedTests - baseResults.failedTests,
         deltaSkipped |-> currentResults.skippedTests - baseResults.skippedTests]

-----------------------------------------------------------------------------
(* State machine: the comparison of processTestResults, on the results of   *)
(* one suite run on the base branch and on the current branch               *)

\* What a run of the suite does with each test: it is not there, it passes
\* or it fails
Outcomes == [1..MaxTests -> {"absent", "pass", "fail"}]

\* The <testsuite> of a run with its <testcase> elements, as parseFile
\* reports it
SuiteOf(outcome) ==
    LET present == SortedSeq({t \in 1..MaxTests : outcome[t] # "absent"})
        testcases == [i \in 1..Len(present) |->
                        [name |-> present[i], classname |-> "C",
                         failure |-> outcome[present[i]] = "fail"]]
    IN  [name |-> "suite", tests |-> Len(testcases),
         failures |-> Cardinality({t \in 1..MaxTests : outcome[t] = "fail"}),
         errors |-> 0, skipped |-> 0, testcases |-> testcases]

InitCompareTests ==
    /\ op = "init"
    /\ InitCoverageVars
    /\ \E b \in Outcomes, c \in Outcomes :
          arg = [present |-> TRUE, v |-> [base |-> b, current |-> c]]
    /\ ret = None
    /\ coverageConfig = None
    /\ coverageChecksFailed = FALSE
    /\ failed = None
    /\ remainingFiles = <<>>
    /\ effects = <<>>

\* processTestResults: comparison = TestResultsComparator.compareResults(
\* baseResults, aggregatedResults), both as JUnitParser.aggregateResults
\* gave them
CompareResults ==
    /\ op = "init"
    /\ ret' = [present |-> TRUE,
               v |-> compareResults(JUnitAggregateResults(SuiteOf(arg.v.base)),
                                    JUnitAggregateResults(SuiteOf(arg.v.current)))]
    /\ op' = "compareResults"
    /\ UNCHANGED <<arg, coverageVars, runVars>>

NextCompareTests == CompareResults

SpecCompareTests == InitCompareTests /\ [][NextCompareTests]_vars

-----------------------------------------------------------------------------
(* Claims about the comparison of test results                              *)

\* The keys of a list of test changes
KeysOf(changes) == {changes[i] : i \in 1..Len(changes)}

TestKey(t) == <<"suite", "C", t>>

\* C22: compareResults puts in testsFixed exactly the tests that fail in
\* the base results and pass in the current results and in testsBroken
\* exactly the tests that pass in the base results and fail in the current
\* results.  Refuted: the test maps hold failed tests only, so both lists
\* are always empty.
C22_FixedAndBroken ==
    op = "compareResults" =>
        /\ KeysOf(ret.v.testsFixed) =
              {TestKey(t) : t \in {u \in 1..MaxTests :
                  arg.v.base[u] = "fail" /\ arg.v.current[u] = "pass"}}
        /\ KeysOf(ret.v.testsBroken) =
              {TestKey(t) : t \in {u \in 1..MaxTests :
                  arg.v.base[u] = "pass" /\ arg.v.current[u] = "fail"}}

-----------------------------------------------------------------------------
(* State machine: processCoverage, one step per statement that can end it   *)

MaxCoverageFiles == 3

\* What a call ends with: a returned value or a thrown Error
Returned(value) == [threw |-> FALSE, value |-> value]
Threw(message) == [threw |-> TRUE, value |-> message]
NullValue == <<"null">>

\* What parsing a coverage file gives: two reports that differ in their
\* totals and in their file
ParsedReports ==
    {CoverageResults(CoverageMetrics(1, 1, 0, 0, 0, 0, calculateRate(1, 1), 0),
                     <<SampleFile("a.ts")>>),
     CoverageResults(CoverageMetrics(2, 1, 0, 0, 0, 0, calculateRate(1, 2), 0),
                     <<SampleFile("b.ts")>>)}

\* A coverage file is unreadable (fs.accessSync throws), or reading,
\* detecting or parsing it throws, or it parses to a report
FileKinds == {[readable |-> FALSE, throws |-> TRUE, result |-> EmptyResults],
              [readable |-> TRUE, throws |-> TRUE, result |-> EmptyResults]}
             \cup {[readable |-> TRUE, throws |-> FALSE, result |-> r] :
                     r \in ParsedReports}

\* FileFinder.validateFiles: the files fs.accessSync accepts, in order
validateFiles(files) ==
    LET readable(file) == file.kind.readable IN SelectSeq(files, readable)

\* The catch block of the loop of processCoverage: rethrow or go on
onParseErrorContinue(failCiIfError) == "continue"

onParseError(failCiIfError) == IF failCiIfError THEN "throw" ELSE "continue"

InitProcessCoverage ==
    /\ op = "init"
    /\ InitCoverageVars
    /\ \E n \in 0..MaxCoverageFiles :
         \E kinds \in [1..n -> FileKinds] :
           \E failCiIfError \in BOOLEAN, handleNoReportsFound \in BOOLEAN,
              base \in BOOLEAN :
              arg = [present |-> TRUE,
                     v |-> [files |-> [i \in 1..n |-> [name |-> i, kind |-> kinds[i]]],
                            failCiIfError |-> failCiIfError,
                            handleNoReportsFound |-> handleNoReportsFound,
                            base |-> base]]
    /\ ret = None
    /\ coverageConfig = None
    /\ coverageChecksFailed = FALSE
    /\ failed = None
    /\ remainingFiles = <<>>
    /\ effects = <<>>

\* files = await findCoverageFiles(config); if (files.length === 0) ...
FindCoverageFiles ==
    /\ op = "init"
    /\ IF Len(arg.v.files) = 0
       THEN IF arg.v.failCiIfError /\ ~arg.v.handleNoReportsFound
            THEN /\ ret' = [present |-> TRUE,
                            v |-> Threw(<<"No coverage files found">>)]
                 /\ op' = "thrown"
            ELSE /\ ret' = [present |-> TRUE, v |-> Returned(NullValue)]
                 /\ op' = "returned"
       ELSE /\ ret' = ret
            /\ op' = "findCoverageFiles"
    /\ UNCHANGED <<arg, coverageVars, coverageConfig, coverageChecksFailed, failed,
                   remainingFiles, effects>>

\* validFiles = fileFinder.validateFiles(files);
\* if (validFiles.length === 0) ...
ValidateFiles ==
    /\ op = "findCoverageFiles"
    /\ remainingFiles' = validateFiles(arg.v.files)
    /\ IF Len(validateFiles(arg.v.files)) = 0
       THEN IF arg.v.failCiIfError
            THEN /\ ret' = [present |-> TRUE,
                            v |-> Threw(<<"No valid coverage files found">>)]
                 /\ op' = "thrown"
            ELSE /\ ret' = [present |-> TRUE, v |-> Returned(NullValue)]
                 /\ op' = "returned"
       ELSE /\ ret' = ret
            /\ op' = "validateFiles"
    /\ UNCHANGED <<arg, coverageVars, coverageConfig, coverageChecksFailed, failed,
                   effects>>

\* One round of for (const file of validFiles) { try { ... } catch ... }
ParseFile ==
    /\ op \in {"validateFiles", "parseFile"}
    /\ remainingFiles # <<>>
    /\ IF Head(remainingFiles).kind.throws
       THEN IF onParseError(arg.v.failCiIfError) = "throw"
            THEN /\ ret' = [present |-> TRUE,
                            v |-> Threw(<<"Failed to parse ",
                                         Head(remainingFiles).name>>)]
                 /\ op' = "thrown"
                 /\ UNCHANGED <<parsed, allResults>>
            ELSE /\ op' = "parseFile"
                 /\ UNCHANGED <<ret, parsed, allResults>>
       ELSE /\ parsed' = Head(remainingFiles).kind.result
            /\ allResults' = Append(allResults, Head(remainingFiles).kind.result)
            /\ op' = "parseFile"
            /\ ret' = ret
    /\ remainingFiles' = Tail(remainingFiles)
    /\ UNCHANGED <<arg, content, aggregated, diffFiles, patchCoverage,
                   projectConfig, patchConfig, projectStatus, patchStatus,
                   coverageConfig, coverageChecksFailed, failed, effects>>

\* After the loop: if (allResults.length === 0) ...;
\* aggregatedResults = CoverageParserFactory.aggregateResults(allResults)
AggregateParsed ==
    /\ op = "parseFile"
    /\ remainingFiles = <<>>
    /\ IF Len(allResults) = 0
       THEN /\ IF arg.v.failCiIfError
               THEN /\ ret' = [present |-> TRUE,
                               v |-> Threw(<<"Failed to parse any coverage files">>)]
                    /\ op' = "thrown"
               ELSE /\ ret' = [present |-> TRUE, v |-> Returned(NullValue)]
                    /\ op' = "returned"
            /\ aggregated' = aggregated
       ELSE /\ aggregated' = aggregateResults(allResults)
            /\ op' = "aggregateResults"
            /\ ret' = ret
    /\ UNCHANGED <<arg, content, parsed, allResults, diffFiles, patchCoverage,
                   projectConfig, patchConfig, projectStatus, patchStatus,
                   coverageConfig, coverageChecksFailed, failed,
                   remainingFiles, effects>>

\* await artifactManager.uploadCoverageResults(aggregatedResults, ...)
UploadCoverageResults ==
    /\ op = "aggregateResults"
    /\ effects' = Append(effects, "uploadCoverageResults")
    /\ op' = "uploadCoverageResults"
    /\ UNCHANGED <<arg, ret, coverageVars, coverageConfig, coverageChecksFailed,
                   failed, remainingFiles>>

\* baseCoverage = await artifactManager.downloadBaseCoverageResults(...);
\* if (baseCoverage) comparison = CoverageComparator.compareResults(...);
\* return aggregatedResults
CompareAndReturn ==
    /\ op = "uploadCoverageResults"
    /\ effects' = IF arg.v.base THEN Append(effects, "compareResults") ELSE effects
    /\ ret' = [present |-> TRUE, v |-> Returned(aggregated)]
    /\ op' = "returned"
    /\ UNCHANGED <<arg, coverageVars, coverageConfig, coverageChecksFailed,
                   failed, remainingFiles>>

NextProcessCoverage ==
    \/ FindCoverageFiles
    \/ ValidateFiles
    \/ ParseFile
    \/ AggregateParsed
    \/ UploadCoverageResults
    \/ CompareAndReturn

SpecProcessCoverage == InitProcessCoverage /\ [][NextProcessCoverage]_vars

-----------------------------------------------------------------------------
(* Claims about processCoverage                                             *)

Ended == op \in {"returned", "thrown"}

\* C23: with handle-no-reports-found true, processCoverage returns null
\* without throwing when no coverage report is found, that is when discovery
\* returns no file or none of the files is readable, whatever
\* fail-ci-if-error is.  Refuted for files that are listed but unreadable.
C23_NoReportsHandled ==
    (/\ Ended
     /\ arg.v.handleNoReportsFound
     /\ validateFiles(arg.v.files) = <<>>)
        => ret.v = Returned(NullValue)

\* The valid files whose reading, detection or parsing throws
Throwing(files) ==
    LET throws(file) == file.kind.throws IN SelectSeq(validateFiles(files), throws)

\* The reports of the valid files that parse, in file order
RECURSIVE ParsedOf(_)
ParsedOf(files) ==
    IF files = <<>> THEN <<>>
    ELSE (IF Head(files).kind.readable /\ ~Head(files).kind.throws
          THEN <<Head(files).kind.result>> ELSE <<>>) \o ParsedOf(Tail(files))

\* The files before the one of the given name
Before(files, name) == SubSeq(files, 1, name - 1)

\* C24: with fail-ci-if-error false a file whose detection or parsing
\* throws is skipped and the files that parse are aggregated in file order;
\* with fail-ci-if-error true the first such failure ends processCoverage
\* with an error, and nothing has been aggregated, uploaded or compared.
C24_ParseFailures ==
    Ended =>
        /\ (~arg.v.failCiIfError /\ ParsedOf(arg.v.files) # <<>>) =>
              /\ op = "returned"
              /\ allResults = ParsedOf(arg.v.files)
              /\ aggregated = aggregateResults(ParsedOf(arg.v.files))
              /\ ret.v = Returned(aggregated)
        /\ (arg.v.failCiIfError /\ Throwing(arg.v.files) # <<>>) =>
              /\ op = "thrown"
              /\ ret.v = Threw(<<"Failed to parse ", Head(Throwing(arg.v.files)).name>>)
              /\ allResults =
                    ParsedOf(Before(arg.v.files, Head(Throwing(arg.v.files)).name))
              /\ aggregated = EmptyAggregated
              /\ effects = <<>>

\* A run with fail-ci-if-error stopped at the first of its two failing
\* files, after it had parsed one file and before it visited the last
C24_Witness ==
    /\ op = "thrown"
    /\ arg.v.failCiIfError
    /\ Len(allResults) = 1
    /\ Len(Throwing(arg.v.files)) = 2
    /\ remainingFiles # <<>>

=============================================================================
